---- MODULE Spec2Model ----
(***************************************************************************)
(* DesignSenseAI front end: the recommendation / ranking logic of the      *)
(* Model Advisor, Supplier Insights and Buyer Insights pages.              *)
(*                                                                         *)
(* Numbers.  JavaScript numbers are modelled in fixed point.  Prices,      *)
(* budgets and ratings are counted in units of 2.5e-7 (a quarter of the    *)
(* comparator's tie tolerance 1e-6), so that differences below, at and     *)
(* above the tolerance are all exact integers.  A nullable number          *)
(* (number | null) is the empty sequence for null and <<v>> for v.         *)
(***************************************************************************)
EXTENDS Integers, Sequences, FiniteSets, TLC

\* ------------------------------------------------------------------------
\* Fixed point and nullable numbers
\* ------------------------------------------------------------------------

\* 1e-6, the comparator's tie tolerance, in units of 2.5e-7.
Tolerance == 4

\* Number.MAX_SAFE_INTEGER, the price the comparator substitutes for an absent
\* one: here the largest number of the fixed-point range.
MAX_SAFE_INTEGER == 2147483647

\* One whole (one dollar, one rating star) in units.
Unit == 1000000 * Tolerance

Null == <<>>

Some(v) == <<v>>

\* The JavaScript expression  x ?? d  on a nullable number.
OrElse(x, d) == IF x = Null THEN d ELSE x[1]

Abs(x) == IF x < 0 THEN -x ELSE x

Max(a, b) == IF a >= b THEN a ELSE b

Min(a, b) == IF a <= b THEN a ELSE b

\* a slice that keeps one element too many
Take_OneTooMany(s, n) == SubSeq(s, 1, Min(n + 1, Len(s)))

\* array.slice(0, n)
Take(s, n) == SubSeq(s, 1, Min(n, Len(s)))

\* the set of the elements of a sequence
Range(s) == {s[i] : i \in 1..Len(s)}

\* all sequences without repetition of at most n elements of S
RECURSIVE InjectiveSeqs(_, _)
InjectiveSeqs(S, n) ==
    IF n = 0 THEN {<<>>}
    ELSE LET shorter == InjectiveSeqs(S, n - 1)
         IN shorter \cup
            {Append(p[1], p[2]) :
                p \in {q \in shorter \X S : Len(q[1]) = n - 1 /\ q[2] \notin Range(q[1])}}

\* all subsequences (order kept) of a sequence
RECURSIVE SubSequences(_)
SubSequences(s) ==
    IF s = <<>> THEN {<<>>}
    ELSE LET rest == SubSequences(Tail(s))
         IN rest \cup {<<Head(s)>> \o t : t \in rest}

\* array.slice(start, end) for 0 <= start, 0 <= end
Slice(s, start, end) == SubSeq(s, start + 1, Min(end, Len(s)))

\* ------------------------------------------------------------------------
\* Model Advisor page (ModelAdvisor component)
\* ------------------------------------------------------------------------

\* Bound: the largest number of models in a snapshot.
MaxModels == 4

Dollars(n) == n * Unit

Stars(n) == n * Unit

\* A ModelAdvisorModel: brand, model, avg_price_usd, avg_rating and the four
\* feature ratings (each number | null).  Feature ratings are counted in
\* thousandths of a star.
Model(brand, model, price, rating, camera, battery, display, performance) ==
    [brand |-> brand, model |-> model, avg_price_usd |-> price, avg_rating |-> rating,
     avg_camera_rating |-> camera, avg_battery_rating |-> battery,
     avg_display_rating |-> display, avg_performance_rating |-> performance]

\* The models the snapshots are drawn from.  The catalogue holds twins
\* (equal price and rating), ratings that are pairwise within the tolerance
\* of their neighbour (4.0, 4.0 + 7.5e-7, 4.0 + 1.5e-6), prices within the
\* tolerance of each other, prices inside, on the edge of and outside the
\* budget windows of $300 ([200, 400]) and $440 ([330, 550]), an absent
\* price and an absent rating; feature ratings that are absent, that are 0,
\* and (camera, 0.004) whose mean rounds to 0.00.
Catalogue ==
    { Model("Aster", "A1", Some(Dollars(335)),     Some(Stars(4)),     Some(4),    Some(4500), Null,       Some(0)),
      Model("Aster", "A2", Some(Dollars(335)),     Some(Stars(4)),     Some(4),    Some(4255), Null,       Some(0)),
      Model("Aster", "A3", Some(Dollars(400)),     Some(Stars(4) + 6), Some(4200), Null,       Null,       Some(3995)),
      Model("Aster", "A4", Some(Dollars(100)),     Null,               Some(4100), Some(4100), Some(4100), Some(4100)),
      Model("Bolt",  "B1", Some(Dollars(200)),     Some(Stars(4) + 3), Some(3800), Some(4000), Some(4100), Null),
      Model("Bolt",  "B2", Some(Dollars(335) + 3), Some(Stars(4) + 3), Null,       Some(3333), Some(4444), Some(0)),
      Model("Bolt",  "B3", Null,                   Some(Stars(4) + 6), Some(4100), Some(4100), Some(4100), Some(4100)) }

\* The ModelAdvisorResponse payloads: data.models, every model at most once.
\* data.brands is the same models grouped by brand.
Snapshots == InjectiveSeqs(Catalogue, MaxModels)

\* The texts typed into the budget field, character by character.
BudgetInputs ==
    { <<>>, <<"3", "0", "0">>, <<"4", "4", "0">> }

\* The JavaScript engines whose Array.prototype.sort the bundle may run on.
Engines == {"timsort", "insertion"}

VARIABLES
    engine,             \* the engine's sort algorithm
    data,               \* useModelAdvisor().data: Null or <<models>>
    selectedBrand,      \* "Browse by company" filter
    budgetInput,        \* text of the budget field
    budgetBrand,        \* brand filter of the budget planner
    recommendedModels,  \* memo: sorted.slice(0, 3)
    candidatePool,      \* memo: sorted
    averageFeatureSeries, \* memo: the feature-satisfaction list
    cardArgs,           \* the arguments of a createRecommendationCards call
    cards,              \* Null before the call returns, then <<its result>>
    buyerArgs,          \* the arguments of a generateBuyerRecommendations call
    recommendations,    \* Null before the call returns, then <<its result>>
    supplierData,           \* useSupplierInsights().data: Null or <<response>>
    supplierActiveKey,      \* SupplierInsights activeKey: Null or <<key>>
    supplierSelectedBrand,  \* SupplierInsights selectedBrand
    supplierEffects,        \* the effects of SupplierInsights that are due
    buyerData,              \* useBuyerInsights().data: Null or <<response>>
    buyerActiveKey,         \* BuyerInsights activeKey: Null or <<key>>
    buyerSelectedBrand,     \* BuyerInsights selectedBrand
    buyerEffects,           \* the effects of BuyerInsights that are due
    apiMounted,             \* the component that calls useApiData is mounted
    apiKey,                 \* useApiData: <<endpoint, serializedParams>> of the last render
    apiEffectDue,           \* useApiData: the effect of the last render has not run yet
    apiState,               \* useApiData: state
    apiRequests,            \* useApiData: the requests issued, in the order of issue
    explorerCall,           \* the arguments of an updateParams call: Null or <<call>>
    explorerResult,         \* Null before the call returns, then <<the new params>>
    explorerMounted,        \* ReviewExplorer is mounted
    explorerParams,         \* useReviewExplorer: Null or <<params>>
    explorerStatus,         \* useReviewExplorer: status
    explorerData,           \* useReviewExplorer: data, Null or <<ReviewQueryResult>>
    explorerError,          \* useReviewExplorer: error, Null or <<message>>
    explorerRequests,       \* useReviewExplorer: the requests in flight
    explorerEffectsDue,     \* ReviewExplorer: the effects of the last render have not run
    explorerUrl,            \* ReviewExplorer: Null or <<the search params of the location>>
    searchTerm              \* ReviewExplorer: text of the search field

advisorVars ==
    <<data, selectedBrand, budgetInput, budgetBrand, recommendedModels, candidatePool,
      averageFeatureSeries>>

supplierPageVars ==
    <<supplierData, supplierActiveKey, supplierSelectedBrand, supplierEffects>>

supplierVars == <<cardArgs, cards, supplierPageVars>>

buyerPageVars == <<buyerData, buyerActiveKey, buyerSelectedBrand, buyerEffects>>

buyerVars == <<buyerArgs, recommendations, buyerPageVars>>

apiVars == <<apiMounted, apiKey, apiEffectDue, apiState, apiRequests>>

explorerPageVars ==
    <<explorerMounted, explorerParams, explorerStatus, explorerData, explorerError,
      explorerRequests, explorerEffectsDue, explorerUrl, searchTerm>>

explorerVars == <<explorerCall, explorerResult, explorerPageVars>>

hookVars == <<apiVars, explorerVars>>

vars == <<engine, advisorVars, supplierVars, buyerVars, hookVars>>

\* The state of a page that is not mounted.
AdvisorIdle ==
    /\ data = Null
    /\ selectedBrand = "all"
    /\ budgetInput = <<>>
    /\ budgetBrand = "all"
    /\ recommendedModels = <<>>
    /\ candidatePool = <<>>
    /\ averageFeatureSeries = <<>>

SupplierPageIdle ==
    /\ supplierData = Null
    /\ supplierActiveKey = Null
    /\ supplierSelectedBrand = "all"
    /\ supplierEffects = {}

SupplierIdle == cardArgs = Null /\ cards = Null /\ SupplierPageIdle

BuyerPageIdle ==
    /\ buyerData = Null
    /\ buyerActiveKey = Null
    /\ buyerSelectedBrand = "all"
    /\ buyerEffects = {}

BuyerIdle == buyerArgs = Null /\ recommendations = Null /\ BuyerPageIdle

\* no component that calls useApiData has been mounted
ApiIdle ==
    /\ apiMounted = FALSE
    /\ apiKey = Null
    /\ apiEffectDue = FALSE
    /\ apiState = [status |-> "idle", data |-> Null, error |-> Null]
    /\ apiRequests = <<>>

\* the Review Explorer has not been mounted
ExplorerPageIdle ==
    /\ explorerMounted = FALSE
    /\ explorerParams = Null
    /\ explorerStatus = "idle"
    /\ explorerData = Null
    /\ explorerError = Null
    /\ explorerRequests = {}
    /\ explorerEffectsDue = {}
    /\ explorerUrl = Null
    /\ searchTerm = ""

ExplorerIdle == explorerCall = Null /\ explorerResult = Null /\ ExplorerPageIdle

HooksIdle == ApiIdle /\ ExplorerIdle

\* brandOptions = data?.brands.map((entry) => entry.brand) ?? []
brandOptions(d) == IF d = Null THEN {} ELSE {m.brand : m \in Range(d[1])}

\* Number.parseFloat on the texts of BudgetInputs: an optional sign, then
\* decimal digits up to the first other character; NaN (Null) without a digit.
DigitChars == <<"0", "1", "2", "3", "4", "5", "6", "7", "8", "9">>

IsDigit(c) == \E i \in 1..Len(DigitChars) : DigitChars[i] = c

DigitValue(c) == (CHOOSE i \in 1..Len(DigitChars) : DigitChars[i] = c) - 1

RECURSIVE DigitRun(_, _, _)
DigitRun(s, i, acc) ==
    IF i <= Len(s) /\ IsDigit(s[i])
    THEN DigitRun(s, i + 1, acc * 10 + DigitValue(s[i]))
    ELSE <<i, acc>>

parseFloat(s) ==
    LET signed == Len(s) >= 1 /\ s[1] \in {"-", "+"}
        start  == IF signed THEN 2 ELSE 1
        run    == DigitRun(s, start, 0)
    IN IF run[1] = start THEN Null
       ELSE IF signed /\ s[1] = "-" THEN Some(-run[2]) ELSE Some(run[2])

\* a budget that takes the magnitude of the parsed number
budgetValue_IgnoresSign(input) ==
    LET parsed == parseFloat(input)
    IN IF parsed # Null /\ parsed[1] # 0 THEN Some(Dollars(Abs(parsed[1]))) ELSE Null

\* budgetValue: the parsed budget in units when finite and > 0, else null.
budgetValue(input) ==
    LET parsed == parseFloat(input)
    IN IF parsed # Null /\ parsed[1] > 0 THEN Some(Dollars(parsed[1])) ELSE Null

\* The comparator handed to [...workingSet].sort: a negative number when a
\* goes first, a positive one when b goes first.  budget is Null or <<b>>.
CompareModels(a, b, budget) ==
    LET ratingDiff == OrElse(b.avg_rating, 0) - OrElse(a.avg_rating, 0)
        diffA == Abs(OrElse(a.avg_price_usd, OrElse(budget, 0)) - OrElse(budget, 0))
        diffB == Abs(OrElse(b.avg_price_usd, OrElse(budget, 0)) - OrElse(budget, 0))
        priceA == OrElse(a.avg_price_usd, MAX_SAFE_INTEGER)
        priceB == OrElse(b.avg_price_usd, MAX_SAFE_INTEGER)
    IN IF Abs(ratingDiff) > Tolerance
       THEN (IF ratingDiff > 0 THEN 1 ELSE -1)
       ELSE IF budget # Null /\ Abs(diffA - diffB) > Tolerance
            THEN diffA - diffB
            ELSE priceA - priceB

\* ------------------------------------------------------------------------
\* Array.prototype.sort
\* ------------------------------------------------------------------------
\* The comparator is handed over as the table cmp of its results: cmp[<<a, b>>]
\* is comparator(a, b), negative when a goes first, positive when b does.

\* V8: arrays shorter than 64 elements are one TimSort run.  CountAndMakeRun
\* finds the longest ascending, or strictly descending, prefix (a descending
\* one is reversed); the rest is inserted by binary insertion.  Positions are
\* 1-based here.
RECURSIVE RunEnd(_, _, _, _)
RunEnd(arr, idx, descending, cmp) ==
    IF idx > Len(arr) THEN Len(arr)
    ELSE LET order == cmp[<<arr[idx], arr[idx - 1]>>]
         IN IF (descending /\ order >= 0) \/ (~descending /\ order < 0)
            THEN idx - 1
            ELSE RunEnd(arr, idx + 1, descending, cmp)

Reverse(s) == [i \in 1..Len(s) |-> s[Len(s) + 1 - i]]

\* the number of elements of arr[1..right] that stay before the pivot
RECURSIVE BinarySearch(_, _, _, _, _)
BinarySearch(arr, pivot, left, right, cmp) ==
    IF left < right
    THEN LET mid == left + ((right - left) \div 2)
         IN IF cmp[<<pivot, arr[mid + 1]>>] < 0
            THEN BinarySearch(arr, pivot, left, mid, cmp)
            ELSE BinarySearch(arr, pivot, mid + 1, right, cmp)
    ELSE left

\* arr with the element at position from moved to position to (to <= from)
MoveTo(arr, from, to) ==
    [i \in 1..Len(arr) |->
        IF i < to \/ i > from THEN arr[i]
        ELSE IF i = to THEN arr[from] ELSE arr[i - 1]]

RECURSIVE BinaryInsertionSort(_, _, _)
BinaryInsertionSort(arr, start, cmp) ==
    IF start > Len(arr) THEN arr
    ELSE LET left == BinarySearch(arr, arr[start], 0, start - 1, cmp)
         IN BinaryInsertionSort(MoveTo(arr, start, left + 1), start + 1, cmp)

TimSort(arr, cmp) ==
    IF Len(arr) < 2 THEN arr
    ELSE LET descending == cmp[<<arr[2], arr[1]>>] < 0
             runEnd == RunEnd(arr, 3, descending, cmp)
             made == IF descending
                     THEN Reverse(SubSeq(arr, 1, runEnd)) \o SubSeq(arr, runEnd + 1, Len(arr))
                     ELSE arr
         IN BinaryInsertionSort(made, runEnd + 1, cmp)

\* SpiderMonkey's self-hosted sort on short arrays: insertion sort; each
\* element moves left past the elements that compare greater than it.
RECURSIVE InsertionPoint(_, _, _, _)
InsertionPoint(arr, item, j, cmp) ==
    IF j >= 1 /\ cmp[<<arr[j], item>>] > 0
    THEN InsertionPoint(arr, item, j - 1, cmp)
    ELSE j + 1

RECURSIVE InsertionSort(_, _, _)
InsertionSort(arr, i, cmp) ==
    IF i > Len(arr) THEN arr
    ELSE InsertionSort(MoveTo(arr, i, InsertionPoint(arr, arr[i], i - 1, cmp)),
                       i + 1, cmp)

\* array.sort(comparator) on the engine the page runs on
ArraySort(arr, cmp, eng) ==
    IF eng = "timsort" THEN TimSort(arr, cmp) ELSE InsertionSort(arr, 2, cmp)

\* Math.max(budget * 0.25, 100)'s floor, the size of the smallest pool the
\* budget filter may leave, and the length of the recommended list.
MIN_TOLERANCE_USD == 100

MIN_WITHIN_TOLERANCE == 3

TOP_COUNT == 3

\* scopedPool: data.models, restricted to budgetBrand unless it is "all"
scopedPool(models, bBrand) ==
    IF bBrand # "all" THEN SelectSeq(models, LAMBDA m : m.brand = bBrand) ELSE models

\* a filter that asks for a known price or a known rating only
withPriceAndRating_Either(pool) ==
    SelectSeq(pool, LAMBDA m : m.avg_price_usd # Null \/ m.avg_rating # Null)

\* withPriceAndRating: the candidates with a known price and a known rating
withPriceAndRating(pool) ==
    SelectSeq(pool, LAMBDA m : m.avg_price_usd # Null /\ m.avg_rating # Null)

\* a tolerance without its floor of 100
tolerance_NoFloor(budget) == budget \div 4

\* tolerance = Math.max(budget * 0.25, 100); budgets are whole dollars, so a
\* quarter of one is a whole number of units
tolerance(budget) == Max(budget \div 4, Dollars(MIN_TOLERANCE_USD))

\* withinTolerance: |price - budget| <= tolerance
withinTolerance(pool, budget) ==
    SelectSeq(pool, LAMBDA m : Abs(OrElse(m.avg_price_usd, 0) - budget) <= tolerance(budget))

\* a working set that is filtered whenever a budget is present
workingSet_AlwaysFiltered(pool, budget) ==
    IF budget # Null THEN withinTolerance(pool, budget[1]) ELSE pool

\* workingSet: the tolerance-filtered pool when a budget is present and the
\* filter leaves at least 3 candidates, else the whole eligible pool
workingSet(pool, budget) ==
    IF budget # Null /\ Len(withinTolerance(pool, budget[1])) >= MIN_WITHIN_TOLERANCE
    THEN withinTolerance(pool, budget[1])
    ELSE pool

\* The useMemo that yields { recommendedModels, candidatePool }.
AdvisorMemo(d, input, bBrand, eng) ==
    IF d = Null \/ d[1] = <<>>
    THEN [recommendedModels |-> <<>>, candidatePool |-> <<>>]
    ELSE LET eligible == withPriceAndRating(scopedPool(d[1], bBrand))
             budget == budgetValue(input)
             working == workingSet(eligible, budget)
             cmp == [p \in Range(working) \X Range(working) |->
                        CompareModels(p[1], p[2], budget)]
             sorted == ArraySort(working, cmp, eng)
         IN IF eligible = <<>>
            THEN [recommendedModels |-> <<>>, candidatePool |-> <<>>]
            ELSE [recommendedModels |-> Take(sorted, TOP_COUNT), candidatePool |-> sorted]

\* the features of averageFeatureSeries, in their order
metrics ==
    << [key |-> "avg_camera_rating",      label |-> "Camera"],
       [key |-> "avg_battery_rating",     label |-> "Battery"],
       [key |-> "avg_display_rating",     label |-> "Display"],
       [key |-> "avg_performance_rating", label |-> "Performance"] >>

\* values.reduce((sum, val) => sum + val, 0) on measured values
RECURSIVE SumOf(_)
SumOf(values) == IF values = <<>> THEN 0 ELSE Head(values)[1] + SumOf(Tail(values))

\* Number((sum / count).toFixed(2)): the mean of ratings given in thousandths,
\* rounded to the nearest hundredth (a half rounds up), in hundredths
toFixed2(sum, count) == (2 * sum + 10 * count) \div (20 * count)

\* the { feature, rating } entry of every metric: the rounded mean of the
\* values measured in the pool, 0 when none is measured
featureRatings(pool) ==
    [i \in 1..Len(metrics) |->
        LET values == SelectSeq([k \in 1..Len(pool) |-> pool[k][metrics[i].key]],
                                LAMBDA v : v # Null)
        IN [feature |-> metrics[i].label,
            rating |-> IF values # <<>> THEN toFixed2(SumOf(values), Len(values)) ELSE 0]]

\* a feature list that keeps the entries rated 0
AverageFeatureSeries_KeepsZero(pool) ==
    SelectSeq(featureRatings(pool), LAMBDA entry : entry.rating >= 0)

\* The useMemo that yields averageFeatureSeries: the entries rated above 0.
AverageFeatureSeries(pool) ==
    SelectSeq(featureRatings(pool), LAMBDA entry : entry.rating > 0)

\* The brand-reset effect: a brand filter that names a brand the snapshot
\* does not offer falls back to "all".
ResetBrand(options, brand) ==
    IF options = {} THEN "all"
    ELSE IF brand # "all" /\ brand \notin options THEN "all" ELSE brand

\* One render of the page after a state change: the effect settles both brand
\* filters, the memo is recomputed from the settled state.
AdvisorRender(d, sBrand, input, bBrand) ==
    LET options == brandOptions(d)
        memo == AdvisorMemo(d, input, ResetBrand(options, bBrand), engine)
    IN /\ data' = d
       /\ selectedBrand' = ResetBrand(options, sBrand)
       /\ budgetInput' = input
       /\ budgetBrand' = ResetBrand(options, bBrand)
       /\ recommendedModels' = memo.recommendedModels
       /\ candidatePool' = memo.candidatePool
       /\ averageFeatureSeries' = AverageFeatureSeries(candidatePool')
       /\ UNCHANGED <<hookVars, engine, supplierVars, buyerVars>>

\* the Model Advisor page is mounted: nothing fetched, nothing typed
AdvisorInit ==
    /\ engine \in Engines
    /\ AdvisorIdle
    /\ SupplierIdle
    /\ BuyerIdle
    /\ HooksIdle

\* the /model-advisor response arrives (once per mount)
AdvisorReceive ==
    /\ data = Null
    /\ \E s \in Snapshots : AdvisorRender(Some(s), selectedBrand, budgetInput, budgetBrand)

\* the selects and the budget field are rendered once the data is there
SetSelectedBrand ==
    /\ data # Null
    /\ \E b \in {"all"} \cup brandOptions(data) :
          AdvisorRender(data, b, budgetInput, budgetBrand)

SetBudgetBrand ==
    /\ data # Null
    /\ \E b \in {"all"} \cup brandOptions(data) :
          AdvisorRender(data, selectedBrand, budgetInput, b)

SetBudgetInput ==
    /\ data # Null
    /\ \E input \in BudgetInputs :
          AdvisorRender(data, selectedBrand, input, budgetBrand)

AdvisorNext ==
    \/ AdvisorReceive
    \/ SetSelectedBrand
    \/ SetBudgetBrand
    \/ SetBudgetInput

SpecAdvisor == AdvisorInit /\ [][AdvisorNext]_vars

\* ------------------------------------------------------------------------
\* Model Advisor: properties
\* ------------------------------------------------------------------------

\* The eligible candidates of the current scope, as a set: the models of the
\* snapshot whose brand the budget planner's scope admits and whose price and
\* rating are both known.
EligibleInScope ==
    IF data = Null THEN {}
    ELSE {m \in Range(data[1]) :
            /\ (budgetBrand = "all" \/ m.brand = budgetBrand)
            /\ m.avg_price_usd # Null
            /\ m.avg_rating # Null}

\* The eligible candidates within max(0.25 b, 100) dollars of the budget b.
NearBudget(b) ==
    {m \in EligibleInScope :
        \/ Abs(m.avg_price_usd[1] - b) <= b \div 4
        \/ Abs(m.avg_price_usd[1] - b) <= Dollars(100)}

\* position of a model in the snapshot's model list
SnapshotIndex(m) == CHOOSE i \in 1..Len(data[1]) : data[1][i] = m

NoDuplicates(s) == \A i, j \in 1..Len(s) : i # j => s[i] # s[j]

\* C4: with a budget b, the candidate pool holds exactly the eligible
\* candidates within max(0.25 b, 100) of b when there are at least 3 of
\* them, and exactly all eligible candidates otherwise.
C4_BudgetPoolExact ==
    budgetValue(budgetInput) # Null =>
        LET b == budgetValue(budgetInput)[1]
        IN /\ NoDuplicates(candidatePool)
           /\ Range(candidatePool) =
                IF Cardinality(NearBudget(b)) >= 3 THEN NearBudget(b) ELSE EligibleInScope

C4_Witness ==
    /\ budgetValue(budgetInput) # Null
    /\ Cardinality(NearBudget(budgetValue(budgetInput)[1])) >= 3
    /\ EligibleInScope \ NearBudget(budgetValue(budgetInput)[1]) # {}
    /\ Range(candidatePool) = NearBudget(budgetValue(budgetInput)[1])

\* C5: the candidate pool never has fewer than min(3, number of eligible
\* candidates in scope) members, whatever the budget.
C5_NeverBelowThree ==
    Len(candidatePool) >= Min(3, Cardinality(EligibleInScope))

C5_Witness ==
    /\ budgetValue(budgetInput) # Null
    /\ Cardinality(NearBudget(budgetValue(budgetInput)[1])) \in {1, 2}
    /\ Cardinality(EligibleInScope) >= 3
    /\ Len(candidatePool) = Cardinality(EligibleInScope)

\* C6: recommendedModels has at most 3 elements and is the prefix of
\* candidatePool of length min(3, len(candidatePool)).
C6_RecommendedIsPrefix ==
    /\ Len(recommendedModels) <= 3
    /\ Len(recommendedModels) = Min(3, Len(candidatePool))
    /\ \A i \in 1..Len(recommendedModels) : recommendedModels[i] = candidatePool[i]

C6_Witness ==
    /\ Len(candidatePool) > 3
    /\ Len(recommendedModels) = 3

\* C7: no candidate with an absent price or an absent rating is in
\* candidatePool or in recommendedModels.
C7_NoMissingPriceOrRating ==
    \A m \in Range(candidatePool) \cup Range(recommendedModels) :
        m.avg_price_usd # Null /\ m.avg_rating # Null

C7_Witness ==
    /\ data # Null
    /\ \E m \in Range(data[1]) :
          m.avg_price_usd = Null /\ (budgetBrand = "all" \/ m.brand = budgetBrand)
    /\ \E m \in Range(data[1]) :
          m.avg_rating = Null /\ (budgetBrand = "all" \/ m.brand = budgetBrand)
    /\ Len(candidatePool) >= 2

\* C8: two candidates of the pool with identical rating and price (hence
\* identical budget distance) keep their snapshot order in candidatePool.
C8_StableRanking ==
    \A i, j \in 1..Len(candidatePool) :
        (/\ i < j
         /\ candidatePool[i].avg_rating = candidatePool[j].avg_rating
         /\ candidatePool[i].avg_price_usd = candidatePool[j].avg_price_usd)
        => SnapshotIndex(candidatePool[i]) < SnapshotIndex(candidatePool[j])

\* C9: of two candidates whose ratings differ by more than the tolerance,
\* the higher rated one comes first in candidatePool.
C9_HigherRatingFirst ==
    \A i, j \in 1..Len(candidatePool) :
        i < j => candidatePool[j].avg_rating[1] - candidatePool[i].avg_rating[1] <= Tolerance

\* C10: with a budget, of two candidates with tied ratings whose distances
\* to the budget differ by more than the tolerance, the closer one comes
\* first in candidatePool.
C10_CloserToBudgetFirst ==
    budgetValue(budgetInput) # Null =>
        LET b == budgetValue(budgetInput)[1]
            dist(m) == Abs(m.avg_price_usd[1] - b)
        IN \A i, j \in 1..Len(candidatePool) :
              (/\ i < j
               /\ Abs(candidatePool[i].avg_rating[1] - candidatePool[j].avg_rating[1]) <= Tolerance)
              => dist(candidatePool[i]) - dist(candidatePool[j]) <= Tolerance

\* C11: price ascending is the final tie-break, compared with the tolerance:
\* of two candidates tied on rating (and on budget distance when a budget is
\* present), the one whose price is lower by more than the tolerance comes
\* first, and two whose prices are within the tolerance keep snapshot order.
C11_PriceTieBreakWithTolerance ==
    LET budget == budgetValue(budgetInput)
        dist(m) == Abs(m.avg_price_usd[1] - OrElse(budget, 0))
    IN \A i, j \in 1..Len(candidatePool) :
          (/\ i < j
           /\ Abs(candidatePool[i].avg_rating[1] - candidatePool[j].avg_rating[1]) <= Tolerance
           /\ (budget # Null =>
                 Abs(dist(candidatePool[i]) - dist(candidatePool[j])) <= Tolerance))
          => /\ candidatePool[i].avg_price_usd[1] - candidatePool[j].avg_price_usd[1] <= Tolerance
             /\ (Abs(candidatePool[i].avg_price_usd[1] - candidatePool[j].avg_price_usd[1]) <= Tolerance
                   => SnapshotIndex(candidatePool[i]) < SnapshotIndex(candidatePool[j]))

\* the values of a feature measured in the candidate pool
MeasuredInPool(key) ==
    {candidatePool[k][key][1] : k \in {n \in 1..Len(candidatePool) : candidatePool[n][key] # Null}}

\* the mean of the measured values of a feature (in thousandths) is below
\* 0.005, so that it rounds to 0.00
MeanRoundsToZero(key) ==
    LET measured == {n \in 1..Len(candidatePool) : candidatePool[n][key] # Null}
        sum == SumOf([n \in 1..Len(candidatePool) |->
                        IF n \in measured THEN candidatePool[n][key] ELSE <<0>>])
    IN sum < 5 * Cardinality(measured)

\* C12: averageFeatureSeries never holds an entry rated exactly 0: a feature
\* without a measured value in the candidate pool and a feature whose
\* rounded mean is 0 are both omitted; the entries keep the order Camera,
\* Battery, Display, Performance.
C12_NoZeroFeature ==
    /\ \A i \in 1..Len(averageFeatureSeries) : averageFeatureSeries[i].rating # 0
    /\ \A k \in 1..Len(metrics) :
          (MeasuredInPool(metrics[k].key) = {} \/ MeanRoundsToZero(metrics[k].key))
          => \A i \in 1..Len(averageFeatureSeries) :
                averageFeatureSeries[i].feature # metrics[k].label
    /\ \A i, j \in 1..Len(averageFeatureSeries) :
          i < j => \E a, b \in 1..Len(metrics) :
                      /\ a < b
                      /\ averageFeatureSeries[i].feature = metrics[a].label
                      /\ averageFeatureSeries[j].feature = metrics[b].label

\* a pool with an unmeasured feature (display), a feature measured as 0
\* (performance), a feature whose mean 0.004 rounds to 0 (camera) and a
\* feature that is listed (battery)
C12_Witness ==
    /\ candidatePool # <<>>
    /\ MeasuredInPool("avg_display_rating") = {}
    /\ MeasuredInPool("avg_performance_rating") = {0}
    /\ MeasuredInPool("avg_camera_rating") = {4}
    /\ Len(averageFeatureSeries) = 1
    /\ averageFeatureSeries[1] = [feature |-> "Battery", rating |-> 438]

\* The budget field alone: texts without a budget in them (empty, without a
\* number, zero, negative) and one budget, over snapshots of the models around
\* the window [330, 550] of $440 and a model without a rating.
AbsentBudgetTexts ==
    { <<>>, <<"a", "b", "c">>, <<"0">>, <<"-", "4", "4", "0">> }

BudgetTexts == AbsentBudgetTexts \cup { <<"4", "4", "0">> }

BudgetSnapshots ==
    InjectiveSeqs({m \in Catalogue : m.model \in {"A1", "A3", "A4", "B1", "B2"}}, MaxModels)

ReceiveBudgetSnapshot ==
    /\ data = Null
    /\ \E s \in BudgetSnapshots : AdvisorRender(Some(s), selectedBrand, budgetInput, budgetBrand)

TypeBudget ==
    /\ data # Null
    /\ \E input \in BudgetTexts : AdvisorRender(data, selectedBrand, input, budgetBrand)

BudgetNext ==
    \/ ReceiveBudgetSnapshot
    \/ SetBudgetBrand
    \/ TypeBudget

SpecBudget == AdvisorInit /\ [][BudgetNext]_vars

\* C17: without a budget the working pool is the full eligible pool of the
\* scope; a budget text that is empty, has no number in it, or holds zero or
\* a negative number is an absent budget, and the page shows what it shows
\* for the empty field.
C17_AbsentBudgetFullPool ==
    /\ budgetValue(budgetInput) = Null =>
          /\ NoDuplicates(candidatePool)
          /\ Range(candidatePool) = EligibleInScope
    /\ budgetInput \in AbsentBudgetTexts =>
          /\ budgetValue(budgetInput) = Null
          /\ candidatePool = AdvisorMemo(data, <<>>, budgetBrand, engine).candidatePool

\* "-440" is typed: three eligible models are within the window of $440, one
\* is outside, and all four are in the pool
C17_Witness ==
    /\ budgetInput = <<"-", "4", "4", "0">>
    /\ Cardinality(NearBudget(Dollars(440))) >= 3
    /\ EligibleInScope \ NearBudget(Dollars(440)) # {}
    /\ Range(candidatePool) = EligibleInScope

\* ------------------------------------------------------------------------
\* Supplier Insights: createRecommendationCards
\* ------------------------------------------------------------------------
\* A card is [title, description, priority].  Titles and descriptions are the
\* template literals of the source, kept as the tuple of their parts: a title
\* is a tuple of strings, a description starts with the name of its template
\* and goes on with the values the template interpolates.

\* Bounds: the largest number of feature_sentiments entries of a brand
\* insight and of model_breakdown entries of a brand.
MaxSentimentEntries == 2

MaxBrandModels == 2

\* complaint_volume entries, in the backend's order (complaints descending)
ComplaintPool ==
    << [feature |-> "camera", complaints |-> 40],
       [feature |-> "battery", complaints |-> 25],
       [feature |-> "display", complaints |-> 25],
       [feature |-> "performance", complaints |-> 10] >>

\* the dataset's free-text recommendations
RecommendationPool == <<"text-1", "text-2", "text-3", "text-4">>

\* [feature, counts] entries of feature_sentiments (Object.entries order is
\* the order of the list): negative ratios 1/4, 1/4 (with more negatives),
\* 1/2, and an entry without any mention
SentimentCatalogue ==
    { [feature |-> "camera",      counts |-> [Positive |-> 3, Neutral |-> 0, Negative |-> 1]],
      [feature |-> "battery",     counts |-> [Positive |-> 5, Neutral |-> 1, Negative |-> 2]],
      [feature |-> "display",     counts |-> [Positive |-> 2, Neutral |-> 0, Negative |-> 2]],
      [feature |-> "performance", counts |-> [Positive |-> 0, Neutral |-> 0, Negative |-> 0]] }

\* ModelBreakdownEntry records: negative_pct (optional) in tenths of a percent
BrandModelCatalogue ==
    { [model |-> "M1", negative_pct |-> Null],
      [model |-> "M2", negative_pct |-> Some(0)],
      [model |-> "M3", negative_pct |-> Some(200)],
      [model |-> "M4", negative_pct |-> Some(355)] }

\* the feature_sentiments of a brand insight (Null: field absent)
FeatureSentimentLists ==
    {Null} \cup {Some(e) : e \in InjectiveSeqs(SentimentCatalogue, MaxSentimentEntries)}

\* the model_breakdown entries of a brand (Null: none for the brand)
BrandModelLists ==
    {Null} \cup {Some(l) : l \in InjectiveSeqs(BrandModelCatalogue, MaxBrandModels)}

\* SupplierBrandInsight values: the summary of brand Aster, with or without an
\* average rating, the brand's own complaint_volume, and the
\* feature_sentiments entries
BrandInsights ==
    { [summary |-> [brand |-> "Aster", avg_rating |-> r],
       complaint_volume |-> cv, feature_sentiments |-> fs] :
        r \in {Null, Some(Stars(4))},
        cv \in SubSequences(ComplaintPool),
        fs \in FeatureSentimentLists }

\* the dataset's complaint_volume: empty, or the whole pool
OverallComplaintVolumes == {<<>>, ComplaintPool}

\* scopedComplaintVolume: the brand's own complaint list, the dataset's when
\* the brand has none; at most 6 entries
scopedComplaintVolume(brandInsight, overallComplaintVolume) ==
    Slice(IF brandInsight # Null /\ brandInsight[1].complaint_volume # <<>>
          THEN brandInsight[1].complaint_volume
          ELSE overallComplaintVolume, 0, 6)

\* The arguments of createRecommendationCards as the page passes them: with a
\* brand insight (a brand is selected, the fallback passed is []), whose
\* complaints are scopedComplaintVolume of it and of the dataset's list;
\* without one for the scope "All companies", with the dataset's
\* recommendations as the fallback; and without one for a selected brand that
\* has no insight (the fallback passed is []).
CardInputs(insights) ==
    { [scopeLabel |-> sl, complaints |-> scopedComplaintVolume(bi, oc), fallback |-> <<>>,
       brandInsight |-> bi, brandModels |-> bm] :
        sl \in {"All companies", "Aster"},
        oc \in OverallComplaintVolumes,
        bi \in {Some(x) : x \in insights},
        bm \in BrandModelLists }
    \cup
    { [scopeLabel |-> "All companies", complaints |-> c, fallback |-> f,
       brandInsight |-> Null, brandModels |-> Null] :
        c \in SubSequences(ComplaintPool),
        f \in SubSequences(RecommendationPool) }
    \cup
    { [scopeLabel |-> "Aster", complaints |-> c, fallback |-> <<>>,
       brandInsight |-> Null, brandModels |-> bm] :
        c \in SubSequences(ComplaintPool),
        bm \in {Null, Some(<<>>)} }

MAX_CARDS == 3

priorities == <<"Critical", "High", "Medium">>

\* a pushCard without the cap
pushCard_NoCap(list, title, description) ==
    Append(list, [title |-> title, description |-> description,
                  priority |-> IF Len(list) + 1 <= Len(priorities)
                               THEN priorities[Len(list) + 1] ELSE "Medium"])

\* a pushCard that reads the tier one position too far
pushCard_NextTier(list, title, description) ==
    IF Len(list) < MAX_CARDS
    THEN Append(list, [title |-> title, description |-> description,
                       priority |-> IF Len(list) + 2 <= Len(priorities)
                                    THEN priorities[Len(list) + 2] ELSE "Medium"])
    ELSE list

\* pushCard: the priority is the tier of the card's position; nothing is
\* pushed once MAX_CARDS cards exist
pushCard(list, title, description) ==
    LET priority == IF Len(list) + 1 <= Len(priorities)
                    THEN priorities[Len(list) + 1] ELSE "Medium"
    IN IF Len(list) < MAX_CARDS
       THEN Append(list, [title |-> title, description |-> description, priority |-> priority])
       ELSE list

\* items.forEach((item) => pushCard(item.title, item.description))
RECURSIVE pushEach(_, _)
pushEach(list, items) ==
    IF items = <<>> THEN list
    ELSE pushEach(pushCard(list, Head(items).title, Head(items).description), Tail(items))

scopeSuffix(scopeLabel) ==
    IF scopeLabel = "All companies" THEN <<>> ELSE <<" for ", scopeLabel>>

\* complaint cards without the stabilize cards
complaintCards_OnlyUrgent(list, brand, complaints, suffix) ==
    IF complaints # <<>> /\ Len(list) < MAX_CARDS
    THEN pushCard(list,
            <<brand, ": Urgent fix for ", complaints[1].feature>>,
            <<"urgent-fix", complaints[1].complaints, complaints[1].feature, suffix>>)
    ELSE list

\* the urgent-fix card of the first complaint and the stabilize cards of the
\* following ones
complaintCards(list, brand, complaints, suffix) ==
    IF complaints # <<>> /\ Len(list) < MAX_CARDS
    THEN LET primaryComplaint == complaints[1]
             pushed == pushCard(list,
                          <<brand, ": Urgent fix for ", primaryComplaint.feature>>,
                          <<"urgent-fix", primaryComplaint.complaints, primaryComplaint.feature, suffix>>)
             others == Slice(complaints, 1, MAX_CARDS - Len(pushed) + 1)
         IN pushEach(pushed,
                [i \in 1..Len(others) |->
                    [title |-> <<brand, ": Stabilize ", others[i].feature>>,
                     description |-> <<"stabilize", others[i].feature, suffix>>]])
    ELSE list

\* total mentions of a feature_sentiments entry
total(entry) == entry.counts.Positive + entry.counts.Neutral + entry.counts.Negative

\* the comparator of the featureSentiments sort: negativeRatio descending,
\* then counts.Negative descending (ratios compared as exact fractions)
CompareSentiments(a, b) ==
    IF b.counts.Negative * total(a) # a.counts.Negative * total(b)
    THEN b.counts.Negative * total(a) - a.counts.Negative * total(b)
    ELSE b.counts.Negative - a.counts.Negative

\* feature sentiments that keep the entries without a mention
featureSentiments_KeepsUnmentioned(brandInsight, eng) ==
    LET entries == IF brandInsight.feature_sentiments = Null
                   THEN <<>> ELSE brandInsight.feature_sentiments[1]
        cmp == [p \in Range(entries) \X Range(entries) |-> CompareSentiments(p[1], p[2])]
    IN ArraySort(entries, cmp, eng)

\* featureSentiments: the entries with mentions, worst negative ratio first
featureSentiments(brandInsight, eng) ==
    LET entries == IF brandInsight.feature_sentiments = Null
                   THEN <<>> ELSE brandInsight.feature_sentiments[1]
        mentioned == SelectSeq(entries, LAMBDA e : total(e) > 0)
        cmp == [p \in Range(mentioned) \X Range(mentioned) |-> CompareSentiments(p[1], p[2])]
    IN ArraySort(mentioned, cmp, eng)

redesignCards(list, brand, brandInsight, suffix, eng) ==
    IF Len(list) < MAX_CARDS
    THEN LET sorted == featureSentiments(brandInsight, eng)
         IN pushEach(list,
                [i \in 1..Len(sorted) |->
                    [title |-> <<brand, ": Redesign ", sorted[i].feature>>,
                     description |-> <<"redesign", sorted[i].counts.Negative, total(sorted[i]),
                                       sorted[i].feature, suffix>>]])
    ELSE list

\* problematicModel: the first of the models with a numeric negative_pct,
\* sorted by negative_pct descending; Null when there is none
\* the first listed model with a negative percentage, whatever its value
problematicModel_FirstListed(brandModels, eng) ==
    LET numeric == SelectSeq(brandModels, LAMBDA m : m.negative_pct # Null)
    IN IF numeric = <<>> THEN Null ELSE Some(numeric[1])

problematicModel(brandModels, eng) ==
    LET numeric == SelectSeq(brandModels, LAMBDA m : m.negative_pct # Null)
        cmp == [p \in Range(numeric) \X Range(numeric) |->
                   OrElse(p[2].negative_pct, 0) - OrElse(p[1].negative_pct, 0)]
        sorted == ArraySort(numeric, cmp, eng)
    IN IF sorted = <<>> THEN Null ELSE Some(sorted[1])

\* a model-recovery card for the worst model even at 0 % negative
modelRecoveryCard_AlsoAtZero(list, brand, brandModels, suffix, eng) ==
    IF brandModels # Null /\ Len(list) < MAX_CARDS /\ problematicModel(brandModels[1], eng) # Null
    THEN pushCard(list,
            <<brand, ": Model recovery for ", problematicModel(brandModels[1], eng)[1].model>>,
            <<"model-recovery", problematicModel(brandModels[1], eng)[1].negative_pct,
              problematicModel(brandModels[1], eng)[1].model, suffix>>)
    ELSE list

modelRecoveryCard(list, brand, brandModels, suffix, eng) ==
    IF brandModels # Null /\ Len(list) < MAX_CARDS
    THEN LET worst == problematicModel(brandModels[1], eng)
         IN IF worst # Null /\ OrElse(worst[1].negative_pct, 0) > 0
            THEN pushCard(list,
                    <<brand, ": Model recovery for ", worst[1].model>>,
                    <<"model-recovery", worst[1].negative_pct, worst[1].model, suffix>>)
            ELSE list
    ELSE list

\* while (cards.length < MAX_CARDS) pushCard("Customer delight initiative")
RECURSIVE delightCards(_, _, _)
delightCards(list, brand, suffix) ==
    IF Len(list) < MAX_CARDS
    THEN delightCards(pushCard(list, <<brand, ": Customer delight initiative">>,
                               <<"customer-delight", suffix>>),
                      brand, suffix)
    ELSE list

\* the pulse card of a scope with brand-level detail
pulseCard(scopeLabel, brandInsight) ==
    pushCard(<<>>, <<brandInsight.summary.brand, ": Sentiment pulse">>,
             <<"sentiment-pulse", scopeSuffix(scopeLabel),
               IF brandInsight.summary.avg_rating # Null /\ brandInsight.summary.avg_rating[1] # 0
               THEN <<"toFixed(1)", brandInsight.summary.avg_rating[1]>> ELSE <<"N/A">>>>)

\* brand cards without the filler loop
brandCards_NoFiller(scopeLabel, complaints, brandInsight, brandModels, eng) ==
    modelRecoveryCard(
        redesignCards(
            complaintCards(pulseCard(scopeLabel, brandInsight), brandInsight.summary.brand,
                           complaints, scopeSuffix(scopeLabel)),
            brandInsight.summary.brand, brandInsight, scopeSuffix(scopeLabel), eng),
        brandInsight.summary.brand, brandModels, scopeSuffix(scopeLabel), eng)

\* brand cards that take the redesign cards before the complaint cards
brandCards_RedesignFirst(scopeLabel, complaints, brandInsight, brandModels, eng) ==
    delightCards(
        modelRecoveryCard(
            complaintCards(
                redesignCards(pulseCard(scopeLabel, brandInsight), brandInsight.summary.brand,
                              brandInsight, scopeSuffix(scopeLabel), eng),
                brandInsight.summary.brand, complaints, scopeSuffix(scopeLabel)),
            brandInsight.summary.brand, brandModels, scopeSuffix(scopeLabel), eng),
        brandInsight.summary.brand, scopeSuffix(scopeLabel))

\* the cards of a scope with brand-level detail
brandCards(scopeLabel, complaints, brandInsight, brandModels, eng) ==
    LET summary == brandInsight.summary
        suffix == scopeSuffix(scopeLabel)
        averageRating == IF summary.avg_rating # Null /\ summary.avg_rating[1] # 0
                         THEN <<"toFixed(1)", summary.avg_rating[1]>> ELSE <<"N/A">>
        pulse == pushCard(<<>>, <<summary.brand, ": Sentiment pulse">>,
                          <<"sentiment-pulse", suffix, averageRating>>)
        withComplaints == complaintCards(pulse, summary.brand, complaints, suffix)
        withRedesign == redesignCards(withComplaints, summary.brand, brandInsight, suffix, eng)
        withRecovery == modelRecoveryCard(withRedesign, summary.brand, brandModels, suffix, eng)
    IN delightCards(withRecovery, summary.brand, suffix)

\* fallback.slice(0, 3 - cards.length).forEach((text, index) => ...): every
\* card is titled with the number of cards before it plus one
RECURSIVE fallbackCards(_, _, _)
fallbackCards(list, texts, scopeLabel) ==
    IF texts = <<>> THEN list
    ELSE LET nextNumber == Len(list) + 1
             label == IF scopeLabel = "All companies"
                      THEN <<"Recommendation ", ToString(nextNumber)>>
                      ELSE <<scopeLabel, ": Initiative ", ToString(nextNumber)>>
             description == IF scopeLabel = "All companies"
                            THEN <<Head(texts)>>
                            ELSE <<Head(texts), " (", scopeLabel, ")">>
         IN fallbackCards(pushCard(list, label, description), Tail(texts), scopeLabel)

\* free-text cards only for a scope without any complaint entry
portfolioCards_TextsOnlyWithoutFixes(scopeLabel, complaints, fallback) ==
    LET suffix == scopeSuffix(scopeLabel)
        picked == Slice(complaints, 0, MAX_CARDS)
        fixes == pushEach(<<>>,
                        [i \in 1..Len(picked) |->
                            [title |-> <<"Portfolio: Fix ", picked[i].feature>>,
                             description |-> <<"portfolio-fix", picked[i].complaints,
                                               picked[i].feature, suffix>>]])
        texts == IF fixes = <<>> /\ fallback # <<>>
                 THEN fallbackCards(fixes, Slice(fallback, 0, 3), scopeLabel)
                 ELSE fixes
    IN IF texts = <<>>
       THEN pushCard(texts, <<"Monitor customer signals">>, <<"monitor-signals", suffix>>)
       ELSE texts

\* the cards of a scope without brand-level detail
portfolioCards(scopeLabel, complaints, fallback) ==
    LET suffix == scopeSuffix(scopeLabel)
        picked == Slice(complaints, 0, MAX_CARDS)
        fixes == IF complaints # <<>>
                 THEN pushEach(<<>>,
                        [i \in 1..Len(picked) |->
                            [title |-> <<"Portfolio: Fix ", picked[i].feature>>,
                             description |-> <<"portfolio-fix", picked[i].complaints,
                                               picked[i].feature, suffix>>]])
                 ELSE <<>>
        texts == IF Len(fixes) < 3 /\ fallback # <<>>
                 THEN fallbackCards(fixes, Slice(fallback, 0, 3 - Len(fixes)), scopeLabel)
                 ELSE fixes
    IN IF texts = <<>>
       THEN pushCard(texts, <<"Monitor customer signals">>, <<"monitor-signals", suffix>>)
       ELSE texts

createRecommendationCards(scopeLabel, complaints, fallback, brandInsight, brandModels, eng) ==
    IF brandInsight # Null
    THEN brandCards(scopeLabel, complaints, brandInsight[1], brandModels, eng)
    ELSE portfolioCards(scopeLabel, complaints, fallback)

\* a render of the Supplier Insights page is about to build its cards
SupplierInit ==
    /\ engine \in Engines
    /\ cardArgs \in {Some(a) : a \in CardInputs(BrandInsights)}
    /\ cards = Null
    /\ SupplierPageIdle
    /\ AdvisorIdle
    /\ BuyerIdle
    /\ HooksIdle

\* the call returns
CreateCards ==
    /\ cardArgs # Null
    /\ cards = Null
    /\ cards' = Some(createRecommendationCards(cardArgs[1].scopeLabel, cardArgs[1].complaints,
                        cardArgs[1].fallback, cardArgs[1].brandInsight,
                        cardArgs[1].brandModels, engine))
    /\ UNCHANGED <<hookVars, engine, cardArgs, supplierPageVars, advisorVars, buyerVars>>

SupplierNext == CreateCards

SpecSupplier == SupplierInit /\ [][SupplierNext]_vars

\* ------------------------------------------------------------------------
\* Supplier Insights: properties
\* ------------------------------------------------------------------------

\* C1: createRecommendationCards returns at least 1 and at most 3 cards for
\* every input; no path returns an empty list.
C1_OneToThreeCards ==
    cards # Null => Len(cards[1]) >= 1 /\ Len(cards[1]) <= 3

\* both ends of the range are reached: the lone generic card of an empty
\* portfolio, and three cards built from more material than fits
C1_Witness ==
    /\ cards # Null
    /\ cardArgs[1].brandInsight = Null
    /\ Len(cardArgs[1].complaints) = 2
    /\ Len(cardArgs[1].fallback) = 4
    /\ Len(cards[1]) = 3

\* C3: the card at position 1 is Critical, at position 2 High and at
\* position 3 Medium, whatever source produced it.
C3_PriorityByPosition ==
    cards # Null =>
        \A i \in 1..Len(cards[1]) :
            cards[1][i].priority = (CASE i = 1 -> "Critical" [] i = 2 -> "High" [] OTHER -> "Medium")

\* a list that mixes sources: pulse, urgent fix, then a redesign card
C3_Witness ==
    /\ cards # Null
    /\ cardArgs[1].brandInsight # Null
    /\ Len(cardArgs[1].complaints) = 1
    /\ Len(cards[1]) = 3
    /\ cards[1][3].description[1] = "redesign"
    /\ cards[1][3].priority = "Medium"

\* the template a card was built from
CardKind(card) == card.description[1]

\* the kinds of the cards of the returned list
CardKinds == [i \in 1..Len(cards[1]) |-> CardKind(cards[1][i])]

\* the feature_sentiments entries of the brand insight that have a mention
MentionedSentiments ==
    IF cardArgs[1].brandInsight[1].feature_sentiments = Null THEN {}
    ELSE {e \in Range(cardArgs[1].brandInsight[1].feature_sentiments[1]) : total(e) > 0}

\* the models of the brand with a negative percentage above 0
TroubledModels ==
    IF cardArgs[1].brandModels = Null THEN {}
    ELSE {m \in Range(cardArgs[1].brandModels[1]) :
            m.negative_pct # Null /\ m.negative_pct[1] > 0}

\* C13 as stated: a single-brand scope whose brand-level detail has a valid
\* summary, no complaint entry and no feature-sentiment entry yields the
\* sentiment-pulse card followed only by filler cards, 3 cards in total.
C13_PulseThenFillerOnly ==
    (/\ cards # Null
     /\ cardArgs[1].scopeLabel # "All companies"
     /\ cardArgs[1].brandInsight # Null
     /\ cardArgs[1].brandInsight[1].complaint_volume = <<>>
     /\ cardArgs[1].brandInsight[1].feature_sentiments \in {Null, Some(<<>>)})
    => CardKinds = <<"sentiment-pulse", "customer-delight", "customer-delight">>

\* C13, amended: with brand-level detail, when the complaint list handed to
\* the generator is empty, no feature-sentiment entry has a mention and no
\* model of the brand has a negative percentage above 0, the list is the
\* sentiment-pulse card followed by two filler cards; when a model has a
\* negative percentage above 0, its model-recovery card takes position 2.
C13_PulseThenFillerWithoutOtherSource ==
    (/\ cards # Null
     /\ cardArgs[1].brandInsight # Null
     /\ cardArgs[1].complaints = <<>>
     /\ MentionedSentiments = {})
    => CardKinds = IF TroubledModels = {}
                   THEN <<"sentiment-pulse", "customer-delight", "customer-delight">>
                   ELSE <<"sentiment-pulse", "model-recovery", "customer-delight">>

\* the brand has models, none of them troubled, and a feature-sentiment entry
\* without a mention: the list is the pulse and two fillers
C13_Witness ==
    /\ cards # Null
    /\ cardArgs[1].brandInsight # Null
    /\ cardArgs[1].complaints = <<>>
    /\ cardArgs[1].brandInsight[1].feature_sentiments # Null
    /\ cardArgs[1].brandInsight[1].feature_sentiments[1] # <<>>
    /\ MentionedSentiments = {}
    /\ cardArgs[1].brandModels # Null
    /\ Len(cardArgs[1].brandModels[1]) = 2
    /\ TroubledModels = {}
    /\ CardKinds = <<"sentiment-pulse", "customer-delight", "customer-delight">>

\* the number of cards the pulse, complaint, redesign and model-recovery
\* sources have for the call
SourceCards ==
    1 + Len(cardArgs[1].complaints) + Cardinality(MentionedSentiments)
      + (IF TroubledModels = {} THEN 0 ELSE 1)

\* C18: with brand-level detail createRecommendationCards returns exactly 3
\* cards; every slot that the pulse, complaint, redesign and model-recovery
\* sources leave open holds the 'Customer delight initiative' card, and the
\* filling loop ends.
C18_ExactlyThreeWithFiller ==
    (cards # Null /\ cardArgs[1].brandInsight # Null) =>
        /\ Len(cards[1]) = MAX_CARDS
        /\ \A i \in 1..MAX_CARDS :
              IF i <= SourceCards
              THEN CardKinds[i] \in {"sentiment-pulse", "urgent-fix", "stabilize",
                                     "redesign", "model-recovery"}
              ELSE /\ CardKinds[i] = "customer-delight"
                   /\ cards[1][i].title = <<cardArgs[1].brandInsight[1].summary.brand,
                                            ": Customer delight initiative">>

\* one source card beside the pulse: the filler is pushed once
C18_Witness ==
    /\ cards # Null
    /\ cardArgs[1].brandInsight # Null
    /\ SourceCards = 2
    /\ CardKinds = <<"sentiment-pulse", "redesign", "customer-delight">>

\* C19: with brand-level detail the cards come in the order of their sources:
\* the sentiment-pulse card is at position 1, no urgent-fix or stabilize card
\* follows a redesign card, no redesign card follows a model-recovery card, and
\* no card of these kinds follows a filler card.
C19_SourceOrder ==
    (cards # Null /\ cardArgs[1].brandInsight # Null) =>
        /\ CardKinds[1] = "sentiment-pulse"
        /\ \A i, j \in 1..Len(CardKinds) :
              i < j =>
                 /\ ~(CardKinds[i] = "redesign" /\ CardKinds[j] \in {"urgent-fix", "stabilize"})
                 /\ ~(CardKinds[i] = "model-recovery" /\ CardKinds[j] = "redesign")
                 /\ ~(/\ CardKinds[i] = "customer-delight"
                      /\ CardKinds[j] \in {"sentiment-pulse", "urgent-fix", "stabilize",
                                            "redesign", "model-recovery"})

\* a complaint and a mentioned feature: the urgent fix comes before the
\* redesign card, and the troubled model gets no card
C19_Witness ==
    /\ cards # Null
    /\ cardArgs[1].brandInsight # Null
    /\ Len(cardArgs[1].complaints) = 1
    /\ Cardinality(MentionedSentiments) = 2
    /\ TroubledModels # {}
    /\ CardKinds = <<"sentiment-pulse", "urgent-fix", "redesign">>

\* C20: with brand-level detail and complaint entries, the first entry gives
\* the one 'Urgent fix' card, at position 2, and the following entries give
\* 'Stabilize' cards in the order of the list until there are 3 cards: with 2
\* or more entries the list is the pulse, the urgent fix of entry 1 and the
\* stabilize card of entry 2, without redesign, model-recovery or filler card.
C20_UrgentThenStabilize ==
    (cards # Null /\ cardArgs[1].brandInsight # Null /\ cardArgs[1].complaints # <<>>) =>
        LET brand == cardArgs[1].brandInsight[1].summary.brand
            complaints == cardArgs[1].complaints
        IN /\ CardKinds[2] = "urgent-fix"
           /\ cards[1][2].title = <<brand, ": Urgent fix for ", complaints[1].feature>>
           /\ CardKinds[3] # "urgent-fix"
           /\ Len(complaints) >= 2 =>
                 /\ CardKinds = <<"sentiment-pulse", "urgent-fix", "stabilize">>
                 /\ cards[1][3].title = <<brand, ": Stabilize ", complaints[2].feature>>

\* more complaints, mentioned features and a troubled model than fit
C20_Witness ==
    /\ cards # Null
    /\ cardArgs[1].brandInsight # Null
    /\ Len(cardArgs[1].complaints) >= 3
    /\ MentionedSentiments # {}
    /\ TroubledModels # {}
    /\ CardKinds = <<"sentiment-pulse", "urgent-fix", "stabilize">>
    /\ cards[1][3].title = <<"Aster", ": Stabilize ", cardArgs[1].complaints[2].feature>>

\* the feature_sentiments entries the redesign cards of the list were built
\* from, in the order of the cards
RedesignEntries ==
    LET redesigns == SelectSeq(cards[1], LAMBDA card : CardKind(card) = "redesign")
        entries == cardArgs[1].brandInsight[1].feature_sentiments[1]
    IN [i \in 1..Len(redesigns) |->
          CHOOSE e \in Range(entries) : e.feature = redesigns[i].description[4]]

\* entry a has a higher negative ratio than entry b, or the same ratio and
\* more negative mentions (both have mentions)
WorseSentiment(a, b) ==
    \/ a.counts.Negative * total(b) > b.counts.Negative * total(a)
    \/ /\ a.counts.Negative * total(b) = b.counts.Negative * total(a)
       /\ a.counts.Negative > b.counts.Negative

\* C21: redesign cards are produced only while the cap is not reached, only
\* for feature-sentiment entries with Positive + Neutral + Negative above
\* zero, and in the order of the negative ratio descending, ties broken by
\* the Negative count descending.
C21_RedesignByNegativeRatio ==
    (cards # Null /\ cardArgs[1].brandInsight # Null) =>
        LET redesigns == SelectSeq(cards[1], LAMBDA card : CardKind(card) = "redesign")
            before == 1 + Min(Len(cardArgs[1].complaints), MAX_CARDS - 1)
        IN /\ Len(redesigns) = Min(MAX_CARDS - before, Cardinality(MentionedSentiments))
           /\ redesigns # <<>> =>
                 /\ \A i \in 1..Len(redesigns) :
                       /\ RedesignEntries[i] \in MentionedSentiments
                       /\ redesigns[i].description[2] = RedesignEntries[i].counts.Negative
                       /\ redesigns[i].description[3] = total(RedesignEntries[i])
                 /\ \A i, j \in 1..Len(redesigns) :
                       i < j => ~WorseSentiment(RedesignEntries[j], RedesignEntries[i])
                 /\ \A e \in MentionedSentiments \ Range(RedesignEntries) :
                       \A i \in 1..Len(redesigns) : ~WorseSentiment(e, RedesignEntries[i])

\* camera (1 of 4 negative) is listed before battery (2 of 8 negative): the
\* ratios tie and battery, with more negative mentions, gets the first card
C21_Witness ==
    /\ cards # Null
    /\ cardArgs[1].brandInsight # Null
    /\ cardArgs[1].complaints = <<>>
    /\ cardArgs[1].brandInsight[1].feature_sentiments # Null
    /\ Len(cardArgs[1].brandInsight[1].feature_sentiments[1]) = 2
    /\ cardArgs[1].brandInsight[1].feature_sentiments[1][1].feature = "camera"
    /\ cardArgs[1].brandInsight[1].feature_sentiments[1][2].feature = "battery"
    /\ CardKinds = <<"sentiment-pulse", "redesign", "redesign">>
    /\ cards[1][2].description[4] = "battery"
    /\ cards[1][3].description[4] = "camera"

\* the models of the brand that have a negative percentage
RatedModels ==
    IF cardArgs[1].brandModels = Null THEN {}
    ELSE {m \in Range(cardArgs[1].brandModels[1]) : m.negative_pct # Null}

\* C22: there is at most one model-recovery card, and only when the cap is
\* not reached and model-level data is available; it names the model with
\* the highest negative percentage among the models that have one, and there
\* is none when that highest value is 0 or no model has a negative
\* percentage.
C22_ModelRecoveryForWorstModel ==
    (cards # Null /\ cardArgs[1].brandInsight # Null) =>
        LET recoveries == SelectSeq(cards[1], LAMBDA card : CardKind(card) = "model-recovery")
            before == 1 + Len(cardArgs[1].complaints) + Cardinality(MentionedSentiments)
        IN /\ Len(recoveries) <= 1
           /\ recoveries # <<>> <=>
                 /\ before < MAX_CARDS
                 /\ cardArgs[1].brandModels # Null
                 /\ \E m \in RatedModels : m.negative_pct[1] > 0
           /\ recoveries # <<>> =>
                 \E m \in RatedModels :
                    /\ recoveries[1].description[3] = m.model
                    /\ recoveries[1].description[2] = m.negative_pct
                    /\ \A o \in RatedModels : o.negative_pct[1] <= m.negative_pct[1]

\* M3 (20.0 % negative) is listed before M4 (35.5 %): the card names M4
C22_Witness ==
    /\ cards # Null
    /\ cardArgs[1].brandInsight # Null
    /\ cardArgs[1].brandModels # Null
    /\ Len(cardArgs[1].brandModels[1]) = 2
    /\ cardArgs[1].brandModels[1][1].model = "M3"
    /\ cardArgs[1].brandModels[1][2].model = "M4"
    /\ CardKinds = <<"sentiment-pulse", "model-recovery", "customer-delight">>
    /\ cards[1][2].description[3] = "M4"

\* C23: without brand-level detail the first up to 3 complaint entries
\* become 'Portfolio: Fix' cards in list order; when they are fewer than 3,
\* the free-text fallback strings are appended in order, each with its text
\* verbatim as the description, until there are 3 cards; the generic
\* 'Monitor customer signals' card is emitted exactly when both sources
\* produced no card.
C23_PortfolioFixesThenTexts ==
    (cards # Null /\ cardArgs[1].brandInsight = Null) =>
        LET fixes == Min(3, Len(cardArgs[1].complaints))
            texts == Min(3 - fixes, Len(cardArgs[1].fallback))
        IN /\ Len(cards[1]) = IF fixes + texts = 0 THEN 1 ELSE fixes + texts
           /\ \A i \in 1..fixes :
                 /\ CardKind(cards[1][i]) = "portfolio-fix"
                 /\ cards[1][i].title = <<"Portfolio: Fix ", cardArgs[1].complaints[i].feature>>
                 /\ cards[1][i].description[2] = cardArgs[1].complaints[i].complaints
           /\ \A i \in 1..texts :
                 cards[1][fixes + i].description = <<cardArgs[1].fallback[i]>>
           /\ ("monitor-signals" \in Range(CardKinds)) <=> (fixes + texts = 0)

\* one complaint entry and four free texts: the fix card, then the first two
\* texts as they are
C23_Witness ==
    /\ cards # Null
    /\ cardArgs[1].brandInsight = Null
    /\ Len(cardArgs[1].complaints) = 1
    /\ cardArgs[1].fallback = RecommendationPool
    /\ Len(cards[1]) = 3
    /\ CardKind(cards[1][1]) = "portfolio-fix"
    /\ cards[1][2].description = <<"text-1">>
    /\ cards[1][3].description = <<"text-2">>

\* ------------------------------------------------------------------------
\* Buyer Insights: generateBuyerRecommendations
\* ------------------------------------------------------------------------
\* Percentages and ratings are counted in tenths (805 is 80.5 %, 45 is 4.5
\* stars).  An optional field that is absent is Null.

\* Bounds: the largest number of model_analysis entries of a dataset and of
\* top_models entries of a brand segment.
MaxAnalysisModels == 3

MaxTopModels == 2

Feature(name, pct, mentions) == [feature |-> name, positive_pct |-> pct, mentions |-> mentions]

\* ModelAnalysisEntry records.  A1 and A2 have the same score 84.5; A3 has no
\* rating and no strongest feature; B2 has no positive_pct; B3 is B2 with a
\* positive_pct measured as 0.
AnalysisCatalogue ==
    { [brand |-> "Aster", model |-> "A1", positive_pct |-> Some(800), avg_rating |-> Some(45),
       strongest_features |-> Some(<<Feature("camera", 910, 40), Feature("battery", 850, 30),
                                     Feature("display", 700, 20)>>)],
      [brand |-> "Aster", model |-> "A2", positive_pct |-> Some(805), avg_rating |-> Some(40),
       strongest_features |-> Some(<<Feature("display", 880, 12)>>)],
      [brand |-> "Aster", model |-> "A3", positive_pct |-> Some(700), avg_rating |-> Null,
       strongest_features |-> Some(<<>>)],
      [brand |-> "Bolt",  model |-> "B1", positive_pct |-> Some(900), avg_rating |-> Some(30),
       strongest_features |-> Null],
      [brand |-> "Bolt",  model |-> "B2", positive_pct |-> Null,      avg_rating |-> Some(50),
       strongest_features |-> Some(<<Feature("battery", 600, 5)>>)],
      [brand |-> "Bolt",  model |-> "B3", positive_pct |-> Some(0),   avg_rating |-> Some(50),
       strongest_features |-> Some(<<Feature("battery", 600, 5)>>)] }

BrandEntry(name, reviews, positive, negative) ==
    [brand |-> name, total_reviews |-> reviews, positive_pct |-> positive, negative_pct |-> negative]

\* dataset.brand_analysis: absent, empty, or brands in the backend's order
BrandAnalyses ==
    { Null,
      Some(<<>>),
      Some(<<BrandEntry("Aster", 120, 800, 120)>>),
      Some(<<BrandEntry("Aster", 120, 800, 120), BrandEntry("Bolt", 90, 750, 150)>>),
      Some(<<BrandEntry("Bolt", 90, 750, 150), BrandEntry("Aster", 120, 800, 120)>>) }

BuyerDatasets ==
    { [brand_analysis |-> ba, model_analysis |-> ma] :
        ba \in BrandAnalyses,
        ma \in {Null} \cup {Some(l) : l \in InjectiveSeqs(AnalysisCatalogue, MaxAnalysisModels)} }

\* ModelLeaderboardEntry records of a brand segment; Z9 is in no analysis pool
LeaderboardCatalogue ==
    { [brand |-> "Aster", model |-> "A1"],
      [brand |-> "Aster", model |-> "A2"],
      [brand |-> "Aster", model |-> "Z9"] }

\* a segment's summary: absent, complete, or without its positive_pct
SegmentSummaries ==
    { Null,
      Some([total_reviews |-> Some(60), positive_pct |-> Some(820), negative_pct |-> Some(100)]),
      Some([total_reviews |-> Some(60), positive_pct |-> Null,      negative_pct |-> Some(100)]) }

BrandSegments ==
    {Null} \cup
    { Some([summary |-> s, top_models |-> t]) :
        s \in SegmentSummaries,
        t \in {Null} \cup {Some(l) : l \in InjectiveSeqs(LeaderboardCatalogue, MaxTopModels)} }

\* selectedBrand: every brand, a brand of the dataset, a brand it lacks
BuyerBrands == {"all", "Aster", "Nova"}

BuyerInputs(datasets) ==
    { [dataset |-> d, selectedBrand |-> b, brandSegment |-> s] :
        d \in datasets, b \in BuyerBrands, s \in BrandSegments }

MAX_RECOMMENDATIONS == 4

\* array[0], and array.find(predicate) as the first element of the matching
\* ones: Null when there is none
First(s) == IF s = <<>> THEN Null ELSE Some(s[1])

scopedBrands(dataset, brand) ==
    LET brandPool == IF dataset.brand_analysis = Null THEN <<>> ELSE dataset.brand_analysis[1]
    IN IF brand = "all" THEN brandPool ELSE SelectSeq(brandPool, LAMBDA e : e.brand = brand)

scopedModels(dataset, brand) ==
    LET modelPool == IF dataset.model_analysis = Null THEN <<>> ELSE dataset.model_analysis[1]
    IN IF brand = "all" THEN modelPool ELSE SelectSeq(modelPool, LAMBDA m : m.brand = brand)

\* brandSegment?.top_models, an empty list when either is absent
topModels(brandSegment) ==
    IF brandSegment = Null \/ brandSegment[1].top_models = Null
    THEN <<>> ELSE brandSegment[1].top_models[1]

\* the scoped model that a leaderboard entry names, Null when there is none
matchInPool(scoped, entry) ==
    First(SelectSeq(scoped, LAMBDA m : m.brand = entry.brand /\ m.model = entry.model))

\* an ordering by avg_rating alone
sortedByScore_RatingOnly(models, eng) ==
    LET cmp == [p \in Range(models) \X Range(models) |->
                   OrElse(p[2].avg_rating, 0) - OrElse(p[1].avg_rating, 0)]
    IN ArraySort(models, cmp, eng)

\* scopedModels.slice().sort(...): by positive_pct + avg_rating descending
sortedByScore(models, eng) ==
    LET score(m) == OrElse(m.positive_pct, 0) + OrElse(m.avg_rating, 0)
        cmp == [p \in Range(models) \X Range(models) |-> score(p[2]) - score(p[1])]
    IN ArraySort(models, cmp, eng)

\* bestModel: the first scoped model by positive_pct + avg_rating descending;
\* without one, the scoped model the segment's first leaderboard entry names
bestModel(scoped, brandSegment, eng) ==
    LET best == First(sortedByScore(scoped, eng))
    IN IF best = Null /\ topModels(brandSegment) # <<>>
       THEN matchInPool(scoped, topModels(brandSegment)[1])
       ELSE best

\* the other models .sort(...): by positive_pct descending
sortedByPositive(models, eng) ==
    LET cmp == [p \in Range(models) \X Range(models) |->
                   OrElse(p[2].positive_pct, 0) - OrElse(p[1].positive_pct, 0)]
    IN ArraySort(models, cmp, eng)

\* a fallback that takes the leaderboard's second entry, whatever the best
\* model is
otherModel_SecondEntry(scoped, best, brandSegment, eng) ==
    LET others == SelectSeq(scoped, LAMBDA m : best = Null \/ m # best[1])
        other == First(sortedByPositive(others, eng))
    IN IF other = Null /\ Len(topModels(brandSegment)) >= 2
       THEN matchInPool(scoped, topModels(brandSegment)[2])
       ELSE other

\* otherModel: the first of the other scoped models by positive_pct
\* descending; without one, the scoped model named by the first leaderboard
\* entry that is not the best model
otherModel(scoped, best, brandSegment, eng) ==
    LET others == SelectSeq(scoped, LAMBDA m : best = Null \/ m # best[1])
        other == First(sortedByPositive(others, eng))
        fallbackCandidate ==
            First(SelectSeq(topModels(brandSegment),
                    LAMBDA e : best = Null \/ e.model # best[1].model \/ e.brand # best[1].brand))
    IN IF other = Null /\ topModels(brandSegment) # <<>> /\ fallbackCandidate # Null
       THEN matchInPool(scoped, fallbackCandidate[1])
       ELSE other

\* a standout card for every strongest feature of the best model
topPickCards_EveryFeature(best, brand) ==
    IF best = Null THEN <<>>
    ELSE LET features == IF best[1].strongest_features = Null THEN <<>>
                         ELSE best[1].strongest_features[1]
         IN << [title |-> <<best[1].brand, " ", best[1].model, " is your top pick">>,
                description |-> <<"top-pick", best[1].model,
                                  IF brand = "all" THEN "across datasets" ELSE "within the brand",
                                  best[1].positive_pct, best[1].avg_rating>>] >>
            \o [i \in 1..Len(features) |->
                   [title |-> <<"What makes ", best[1].model, " stand out">>,
                    description |-> <<"standout", features[i]>>]]

\* the top-pick card and the standout-feature card of the best model
topPickCards(best, brand) ==
    IF best = Null THEN <<>>
    ELSE LET standoutFeature ==
                 IF best[1].strongest_features = Null THEN Null
                 ELSE First(best[1].strongest_features[1])
         IN << [title |-> <<best[1].brand, " ", best[1].model, " is your top pick">>,
                description |-> <<"top-pick", best[1].model,
                                  IF brand = "all" THEN "across datasets" ELSE "within the brand",
                                  best[1].positive_pct, best[1].avg_rating>>] >>
            \o IF standoutFeature = Null THEN <<>>
               ELSE << [title |-> <<"What makes ", best[1].model, " stand out">>,
                        description |-> <<"standout", standoutFeature[1]>>] >>

\* a ?? b on two optional numbers
Coalesce(a, b) == IF a # Null THEN a ELSE b

\* the benchmark card of every brand, or the health check of the selected one
brandCard(dataset, brand, brandSegment) ==
    LET entry == First(scopedBrands(dataset, brand))
        summary == IF brandSegment = Null THEN Null ELSE brandSegment[1].summary
        totalReviews == Coalesce(IF summary = Null THEN Null ELSE summary[1].total_reviews,
                                 IF entry = Null THEN Null ELSE Some(entry[1].total_reviews))
        positivePct == Coalesce(IF summary = Null THEN Null ELSE summary[1].positive_pct,
                                IF entry = Null THEN Null ELSE Some(entry[1].positive_pct))
        negativePct == Coalesce(IF summary = Null THEN Null ELSE summary[1].negative_pct,
                                IF entry = Null THEN Null ELSE Some(entry[1].negative_pct))
    IN IF brand = "all"
       THEN IF entry = Null THEN <<>>
            ELSE << [title |-> <<entry[1].brand, " leads the market">>,
                     description |-> <<"benchmark", entry[1].positive_pct, entry[1].negative_pct,
                                       entry[1].total_reviews>>] >>
       ELSE IF totalReviews # Null /\ positivePct # Null /\ negativePct # Null
            THEN << [title |-> <<brand, " brand health check">>,
                     description |-> <<"health-check", positivePct[1], negativePct[1],
                                       totalReviews[1]>>] >>
            ELSE <<>>

secondaryCard(other) ==
    IF other = Null THEN <<>>
    ELSE LET features == IF other[1].strongest_features = Null THEN <<>>
                         ELSE Slice([i \in 1..Len(other[1].strongest_features[1]) |->
                                        other[1].strongest_features[1][i].feature], 0, 2)
         IN << [title |-> <<"Secondary option: ", other[1].brand, " ", other[1].model>>,
                description |-> <<"secondary", other[1].model, other[1].positive_pct,
                                  other[1].avg_rating,
                                  IF features = <<>> THEN <<"core usability">> ELSE features>>] >>

\* a generator that appends the generic card whatever was produced
generateBuyerRecommendations_AlwaysGeneric(dataset, brand, brandSegment, eng) ==
    LET scoped == scopedModels(dataset, brand)
        best == bestModel(scoped, brandSegment, eng)
    IN Slice(topPickCards(best, brand)
             \o brandCard(dataset, brand, brandSegment)
             \o secondaryCard(otherModel(scoped, best, brandSegment, eng))
             \o << [title |-> <<"Monitor customer feedback">>,
                    description |-> <<"monitor-feedback">>] >>,
             0, MAX_RECOMMENDATIONS)

\* a generator without the generic card of an empty result
generateBuyerRecommendations_NoGeneric(dataset, brand, brandSegment, eng) ==
    LET scoped == scopedModels(dataset, brand)
        best == bestModel(scoped, brandSegment, eng)
    IN Slice(topPickCards(best, brand)
             \o brandCard(dataset, brand, brandSegment)
             \o secondaryCard(otherModel(scoped, best, brandSegment, eng)),
             0, MAX_RECOMMENDATIONS)

\* the recommendations array before the final slice(0, 4)
builtRecommendations(dataset, brand, brandSegment, eng) ==
    LET scoped == scopedModels(dataset, brand)
        best == bestModel(scoped, brandSegment, eng)
        built == topPickCards(best, brand)
                 \o brandCard(dataset, brand, brandSegment)
                 \o secondaryCard(otherModel(scoped, best, brandSegment, eng))
    IN IF built = <<>>
       THEN << [title |-> <<"Monitor customer feedback">>,
                description |-> <<"monitor-feedback">>] >>
       ELSE built

generateBuyerRecommendations(dataset, brand, brandSegment, eng) ==
    Slice(builtRecommendations(dataset, brand, brandSegment, eng), 0, MAX_RECOMMENDATIONS)

\* a render of the Buyer Insights page is about to build its cards
BuyerInit ==
    /\ engine \in Engines
    /\ buyerArgs \in {Some(a) : a \in BuyerInputs(BuyerDatasets)}
    /\ recommendations = Null
    /\ BuyerPageIdle
    /\ AdvisorIdle
    /\ SupplierIdle
    /\ HooksIdle

\* the call returns
GenerateRecommendations ==
    /\ buyerArgs # Null
    /\ recommendations = Null
    /\ recommendations' = Some(generateBuyerRecommendations(buyerArgs[1].dataset,
                                  buyerArgs[1].selectedBrand, buyerArgs[1].brandSegment, engine))
    /\ UNCHANGED <<hookVars, engine, buyerArgs, buyerPageVars, advisorVars, supplierVars>>

BuyerNext == GenerateRecommendations

SpecBuyer == BuyerInit /\ [][BuyerNext]_vars

\* ------------------------------------------------------------------------
\* Buyer Insights: properties
\* ------------------------------------------------------------------------

\* C2: generateBuyerRecommendations returns at least 1 and at most 4 cards
\* for every dataset, selected brand and brand segment.
C2_OneToFourCards ==
    recommendations # Null => Len(recommendations[1]) >= 1 /\ Len(recommendations[1]) <= 4

\* all four sources produce a card
C2_Witness ==
    /\ recommendations # Null
    /\ Len(recommendations[1]) = 4
    /\ recommendations[1][1].description[1] = "top-pick"
    /\ recommendations[1][4].description[1] = "secondary"

\* the templates of the returned buyer cards
BuyerKinds == [i \in 1..Len(recommendations[1]) |-> recommendations[1][i].description[1]]

\* C14: with scope 'all', an empty or absent model-analysis list and an
\* empty or absent brand-analysis list, the result is the single generic
\* 'Monitor customer feedback' card; and the generic card never comes
\* together with another card.
C14_GenericCardAlone ==
    recommendations # Null =>
        /\ (/\ buyerArgs[1].selectedBrand = "all"
            /\ buyerArgs[1].dataset.model_analysis \in {Null, Some(<<>>)}
            /\ buyerArgs[1].dataset.brand_analysis \in {Null, Some(<<>>)})
           => BuyerKinds = <<"monitor-feedback">>
        /\ (\E i \in 1..Len(BuyerKinds) : BuyerKinds[i] = "monitor-feedback")
           => Len(BuyerKinds) = 1

\* the aggregate view of a dataset without analyses
C14_Witness ==
    /\ recommendations # Null
    /\ buyerArgs[1].selectedBrand = "all"
    /\ buyerArgs[1].dataset.model_analysis = Null
    /\ buyerArgs[1].dataset.brand_analysis = Some(<<>>)
    /\ buyerArgs[1].brandSegment = Null
    /\ BuyerKinds = <<"monitor-feedback">>

\* z is m with the one absent field of m (avg_rating or positive_pct)
\* measured as 0
MeasuredZeroTwin(m, z) ==
    \/ /\ m.avg_rating = Null /\ z.avg_rating = Some(0)
       /\ m.positive_pct = z.positive_pct
    \/ /\ m.positive_pct = Null /\ z.positive_pct = Some(0)
       /\ m.avg_rating = z.avg_rating

\* a sort orders a and b identically: it leaves the two in the order they
\* came in, whichever comes first
OrderedIdentically(a, b, ab, ba) == ab = <<a, b>> /\ ba = <<b, a>>

\* C16: no ranking comparison substitutes zero for an absent numeric field:
\* in the best-model ordering and in the secondary-model ordering of the
\* buyer cards, a scoped model whose avg_rating or positive_pct is absent is
\* never ordered identically to a scoped model that measured 0 there.
C16_AbsentIsNotMeasuredZero ==
    recommendations # Null =>
        LET scoped == scopedModels(buyerArgs[1].dataset, buyerArgs[1].selectedBrand)
        IN \A m, z \in Range(scoped) :
              MeasuredZeroTwin(m, z) =>
                 /\ ~OrderedIdentically(m, z, sortedByScore(<<m, z>>, engine),
                                        sortedByScore(<<z, m>>, engine))
                 /\ ~OrderedIdentically(m, z, sortedByPositive(<<m, z>>, engine),
                                        sortedByPositive(<<z, m>>, engine))

\* the scoped models of the call
ScopedModels == scopedModels(buyerArgs[1].dataset, buyerArgs[1].selectedBrand)

\* positive_pct + avg_rating as the generator computes it: an absent term
\* adds nothing
Score(m) == OrElse(m.positive_pct, 0) + OrElse(m.avg_rating, 0)

\* C24: whenever the scoped model list is non-empty, the first card is the
\* top-pick card and names a model whose score positive_pct + avg_rating is
\* maximal among the models in scope, the earliest in snapshot order among
\* those with the maximal score.
C24_TopPickHasMaximalScore ==
    (recommendations # Null /\ ScopedModels # <<>>) =>
        /\ BuyerKinds[1] = "top-pick"
        /\ \E i \in 1..Len(ScopedModels) :
              /\ recommendations[1][1].title =
                    <<ScopedModels[i].brand, " ", ScopedModels[i].model, " is your top pick">>
              /\ recommendations[1][1].description[2] = ScopedModels[i].model
              /\ \A j \in 1..Len(ScopedModels) :
                    /\ Score(ScopedModels[j]) <= Score(ScopedModels[i])
                    /\ j < i => Score(ScopedModels[j]) < Score(ScopedModels[i])

\* the snapshot lists A3 (70.0), A2 (80.5 + 4.0) and A1 (80.0 + 4.5): the
\* top pick is A2, the earlier of the two models with score 84.5
C24_Witness ==
    /\ recommendations # Null
    /\ buyerArgs[1].selectedBrand = "Aster"
    /\ Len(ScopedModels) = 3
    /\ ScopedModels[1].model = "A3"
    /\ ScopedModels[2].model = "A2"
    /\ ScopedModels[3].model = "A1"
    /\ BuyerKinds[1] = "top-pick"
    /\ recommendations[1][1].description[2] = "A2"

\* C25 as stated: when the scoped model list yields no second model, the
\* secondary-option card comes from the second entry of the brand segment's
\* leaderboard: there is one, for the scoped model of that brand and name,
\* exactly when such a scoped model exists.
C25_SecondLeaderboardEntryMatched ==
    (/\ recommendations # Null
     /\ Len(ScopedModels) <= 1
     /\ Len(topModels(buyerArgs[1].brandSegment)) >= 2)
    => LET match == matchInPool(ScopedModels, topModels(buyerArgs[1].brandSegment)[2])
           secondaries == SelectSeq(recommendations[1],
                                    LAMBDA card : card.description[1] = "secondary")
       IN IF match = Null THEN secondaries = <<>>
          ELSE /\ Len(secondaries) = 1
               /\ secondaries[1].description[2] = match[1].model

\* the leaderboard entry the fallback looks up: the first one that is not
\* the model of the top-pick card
FallbackCandidate ==
    First(SelectSeq(topModels(buyerArgs[1].brandSegment),
            LAMBDA e : \/ ScopedModels = <<>>
                       \/ e.model # ScopedModels[1].model
                       \/ e.brand # ScopedModels[1].brand))

\* C25, amended: when the scoped model list yields no second model, the
\* fallback looks up the first leaderboard entry that is not the best model
\* in the scoped pool by (brand, model); the scoped pool then holds no model
\* but the best one, so no match exists and there is no secondary-option
\* card, also when the second leaderboard entry names a scoped model.
C25_FallbackSkipsBestModel ==
    (recommendations # Null /\ Len(ScopedModels) <= 1) =>
        /\ FallbackCandidate # Null => matchInPool(ScopedModels, FallbackCandidate[1]) = Null
        /\ \A i \in 1..Len(BuyerKinds) : BuyerKinds[i] # "secondary"

\* the only scoped model is A1 and the leaderboard is [A2, A1]: its second
\* entry names a scoped model, the entry looked up is A2, no secondary card
C25_Witness ==
    /\ recommendations # Null
    /\ Len(ScopedModels) = 1
    /\ ScopedModels[1].model = "A1"
    /\ Len(topModels(buyerArgs[1].brandSegment)) = 2
    /\ topModels(buyerArgs[1].brandSegment)[1].model = "A2"
    /\ topModels(buyerArgs[1].brandSegment)[2].model = "A1"
    /\ FallbackCandidate # Null
    /\ FallbackCandidate[1].model = "A2"
    /\ BuyerKinds[1] = "top-pick"
    /\ \A i \in 1..Len(BuyerKinds) : BuyerKinds[i] # "secondary"

\* the position of a card's source in the generator
SourceRank(kind) ==
    CASE kind = "top-pick" -> 1
      [] kind = "standout" -> 2
      [] kind \in {"benchmark", "health-check"} -> 3
      [] kind = "secondary" -> 4
      [] OTHER -> 0

\* C26: the buyer cards appear in the source order top pick, standout, brand
\* card (benchmark or health check), secondary; a standout card appears only
\* directly after a top pick; and the four sources never produce more than
\* 4 cards, so the final truncation to 4 removes no card.
C26_FixedSourceOrder ==
    recommendations # Null =>
        LET built == builtRecommendations(buyerArgs[1].dataset, buyerArgs[1].selectedBrand,
                                          buyerArgs[1].brandSegment, engine)
        IN /\ \A i, j \in 1..Len(BuyerKinds) :
                 i < j => SourceRank(BuyerKinds[i]) < SourceRank(BuyerKinds[j])
           /\ \A i \in 1..Len(BuyerKinds) :
                 BuyerKinds[i] = "standout" => i = 2 /\ BuyerKinds[1] = "top-pick"
           /\ Len(built) <= MAX_RECOMMENDATIONS
           /\ recommendations[1] = built

\* every source produced its card for a single brand
C26_Witness ==
    /\ recommendations # Null
    /\ buyerArgs[1].selectedBrand = "Aster"
    /\ BuyerKinds = <<"top-pick", "standout", "health-check", "secondary">>

\* ------------------------------------------------------------------------
\* The pages: data set selection, brand filter and effects
\* ------------------------------------------------------------------------
\* A Record<string, T> is the list of its [key, value] entries in key order.

Entry(key, value) == [key |-> key, value |-> value]

\* Object.keys(record)
Keys(entries) == [i \in 1..Len(entries) |-> entries[i].key]

\* record[key] ?? null
Lookup(entries, key) ==
    LET found == SelectSeq(entries, LAMBDA e : e.key = key)
    IN IF found = <<>> THEN Null ELSE Some(found[1].value)

\* datasetKeys: "overall" when the response has it, then the keys of datasets
datasetKeys(d) ==
    IF d = Null THEN <<>>
    ELSE (IF d[1].overall # Null THEN <<"overall">> ELSE <<>>) \o Keys(d[1].datasets)

\* activeDataset: Null without data, without a key or without such a data set
activeDataset(d, key) ==
    IF d = Null \/ key = Null THEN Null
    ELSE IF key[1] = "overall" THEN d[1].overall
    ELSE Lookup(d[1].datasets, key[1])

\* The effects of the Buyer and the Supplier page, by what they do.
SelectKey == "selectKey"

ResetOnKey == "resetOnKey"

ResetOnOptions == "resetOnOptions"

\* the effects that run after a render in which activeKey changed
AfterKeyChange == {SelectKey, ResetOnKey, ResetOnOptions}

\* effects that leave the selected brand as it is
selectedBrandAfterEffects_Kept(due, brand, options) == brand

\* setSelectedBrand("all") of the effect on [activeKey], and of the effect on
\* [brandOptions, selectedBrand] for a brand the options lack
selectedBrandAfterEffects(due, brand, options) ==
    IF ResetOnKey \in due THEN "all"
    ELSE IF ResetOnOptions \in due /\ brand # "all" /\ brand \notin options THEN "all"
    ELSE brand

\* the effects due after a batch of effects has set the key and the brand
EffectsAfter(key, brand, newKey, newBrand) ==
    IF newKey # key THEN AfterKeyChange
    ELSE IF newBrand # brand THEN {ResetOnOptions}
    ELSE {}

Analysis(model) == CHOOSE m \in AnalysisCatalogue : m.model = model

\* BuyerInsightsDataset values: two brands with a segment for Aster; one
\* brand, segments for Nova and "Unknown"; and a data set without analyses
\* and segments
BuyerPageDatasets ==
    { [brand_analysis |-> Some(<<BrandEntry("Aster", 120, 800, 120), BrandEntry("Bolt", 90, 750, 150)>>),
       model_analysis |-> Some(<<Analysis("A1"), Analysis("A2"), Analysis("B1")>>),
       brand_segments |-> Some(<<Entry("Aster",
            [summary |-> Some([total_reviews |-> Some(60), positive_pct |-> Some(820),
                               negative_pct |-> Some(100)]),
             top_models |-> Some(<<[brand |-> "Aster", model |-> "A1"]>>)])>>)],
      [brand_analysis |-> Some(<<BrandEntry("Bolt", 90, 750, 150), BrandEntry("Unknown", 5, 500, 500)>>),
       model_analysis |-> Some(<<Analysis("B1"), Analysis("B2")>>),
       brand_segments |-> Some(<<Entry("Nova", [summary |-> Null, top_models |-> Null]),
                                 Entry("Unknown", [summary |-> Null, top_models |-> Null])>>)],
      [brand_analysis |-> Null, model_analysis |-> Null, brand_segments |-> Null] }

\* BuyerInsightsResponse payloads: with or without overall, and up to two
\* named data sets
BuyerResponses ==
    { [overall |-> o, datasets |-> ds] :
        o \in {Null} \cup {Some(x) : x \in BuyerPageDatasets},
        ds \in {<<>>}
               \cup {<<Entry("reviews", x)>> : x \in BuyerPageDatasets}
               \cup {<<Entry("reviews", x), Entry("social", y)>> :
                        x \in BuyerPageDatasets, y \in BuyerPageDatasets} }

\* brandOptions of the Buyer page: the brands of brand_analysis and the keys
\* of brand_segments, without "Unknown"
buyerBrandOptions(dataset) ==
    IF dataset = Null THEN {}
    ELSE ({e.brand : e \in Range(OrElse(dataset[1].brand_analysis, <<>>))}
          \cup Range(Keys(OrElse(dataset[1].brand_segments, <<>>)))) \ {"Unknown"}

\* the effect on [activeKey, datasetKeys] of the Buyer page
buyerKeyAfterEffects(due, key, keys) ==
    IF SelectKey \in due /\ keys # <<>> /\ (key = Null \/ key[1] \notin Range(keys))
    THEN Some(keys[1]) ELSE key

\* One render of the Buyer page: past the early returns it calls
\* generateBuyerRecommendations(activeDataset, selectedBrand, brandSegment).
BuyerRender(d, key, brand, due) ==
    LET dataset == activeDataset(d, key)
        brandSegment == IF brand = "all" \/ dataset[1].brand_segments = Null THEN Null
                        ELSE Lookup(dataset[1].brand_segments[1], brand)
    IN /\ buyerData' = d
       /\ buyerActiveKey' = key
       /\ buyerSelectedBrand' = brand
       /\ buyerEffects' = due
       /\ buyerArgs' = IF dataset = Null THEN Null
                       ELSE Some([dataset |-> dataset[1], selectedBrand |-> brand,
                                  brandSegment |-> brandSegment])
       /\ recommendations' =
            IF dataset = Null THEN Null
            ELSE Some(generateBuyerRecommendations(dataset[1], brand, brandSegment, engine))
       /\ UNCHANGED <<hookVars, engine, advisorVars, supplierVars>>

\* the /buyer-insights response arrives (once per mount)
BuyerReceive ==
    /\ AdvisorIdle /\ SupplierIdle
    /\ buyerData = Null
    /\ \E r \in BuyerResponses :
          BuyerRender(Some(r), buyerActiveKey, buyerSelectedBrand, {SelectKey})

\* the effects that are due run in one batch, then the page renders again if
\* they changed its state
BuyerRunEffects ==
    /\ buyerEffects # {}
    /\ LET key == buyerKeyAfterEffects(buyerEffects, buyerActiveKey, datasetKeys(buyerData))
           brand == selectedBrandAfterEffects(buyerEffects, buyerSelectedBrand,
                        buyerBrandOptions(activeDataset(buyerData, buyerActiveKey)))
       IN IF key = buyerActiveKey /\ brand = buyerSelectedBrand
          THEN /\ buyerEffects' = {}
               /\ UNCHANGED <<hookVars, engine, advisorVars, supplierVars, buyerArgs, recommendations,
                              buyerData, buyerActiveKey, buyerSelectedBrand>>
          ELSE BuyerRender(buyerData, key, brand,
                           EffectsAfter(buyerActiveKey, buyerSelectedBrand, key, brand))

\* a data set button is clicked
BuyerSetActiveKey ==
    /\ buyerArgs # Null
    /\ buyerEffects = {}
    /\ \E k \in Range(datasetKeys(buyerData)) :
          /\ Some(k) # buyerActiveKey
          /\ BuyerRender(buyerData, Some(k), buyerSelectedBrand, AfterKeyChange)

\* a company is picked in the brand select
BuyerSetSelectedBrand ==
    /\ buyerArgs # Null
    /\ buyerEffects = {}
    /\ \E b \in {"all"} \cup buyerBrandOptions(activeDataset(buyerData, buyerActiveKey)) :
          /\ b # buyerSelectedBrand
          /\ BuyerRender(buyerData, buyerActiveKey, b, {ResetOnOptions})

BuyerPageNext ==
    \/ BuyerReceive
    \/ BuyerRunEffects
    \/ BuyerSetActiveKey
    \/ BuyerSetSelectedBrand

Breakdown(model) == CHOOSE m \in BrandModelCatalogue : m.model = model

\* SupplierDatasetInsight values: two brands with an insight and models for
\* Aster; one brand without insights; and a data set without brands
SupplierPageDatasets ==
    { [brand_overview |-> <<"Aster", "Bolt">>,
       complaint_volume |-> ComplaintPool,
       recommendations |-> RecommendationPool,
       brand_insights |-> Some(<<Entry("Aster",
            [summary |-> [brand |-> "Aster", avg_rating |-> Some(Stars(4))],
             complaint_volume |-> <<>>,
             feature_sentiments |-> Null])>>),
       model_breakdown |-> <<Entry("Aster", <<Breakdown("M1"), Breakdown("M3")>>)>>],
      [brand_overview |-> <<"Bolt">>,
       complaint_volume |-> SubSeq(ComplaintPool, 1, 1),
       recommendations |-> <<>>,
       brand_insights |-> Null,
       model_breakdown |-> <<>>],
      [brand_overview |-> <<>>,
       complaint_volume |-> <<>>,
       recommendations |-> <<>>,
       brand_insights |-> Some(<<>>),
       model_breakdown |-> <<>>] }

\* SupplierInsightsResponse payloads
SupplierResponses ==
    { [overall |-> o, datasets |-> ds] :
        o \in {Null} \cup {Some(x) : x \in SupplierPageDatasets},
        ds \in {<<>>}
               \cup {<<Entry("reviews", x)>> : x \in SupplierPageDatasets}
               \cup {<<Entry("reviews", x), Entry("social", y)>> :
                        x \in SupplierPageDatasets, y \in SupplierPageDatasets} }

\* brandOptions of the Supplier page: the brands of brand_overview
supplierBrandOptions(dataset) ==
    IF dataset = Null THEN {} ELSE Range(dataset[1].brand_overview)

\* the effect on [datasetKeys, activeKey] of the Supplier page
supplierKeyAfterEffects(due, key, keys) ==
    IF SelectKey \notin due THEN key
    ELSE IF keys = <<>> THEN Null
    ELSE IF key = Null \/ key[1] \notin Range(keys) THEN Some(keys[1])
    ELSE key

\* One render of the Supplier page: past the early returns it calls
\* createRecommendationCards.
SupplierRender(d, key, brand, due) ==
    LET dataset == activeDataset(d, key)
        brandInsight == IF brand = "all" \/ dataset[1].brand_insights = Null THEN Null
                        ELSE Lookup(dataset[1].brand_insights[1], brand)
        brandModels == IF brand = "all" THEN Null
                       ELSE Lookup(dataset[1].model_breakdown, brand)
    IN /\ supplierData' = d
       /\ supplierActiveKey' = key
       /\ supplierSelectedBrand' = brand
       /\ supplierEffects' = due
       /\ cardArgs' =
            IF dataset = Null THEN Null
            ELSE Some([scopeLabel |-> IF brand = "all" THEN "All companies" ELSE brand,
                       complaints |-> scopedComplaintVolume(brandInsight,
                                                            dataset[1].complaint_volume),
                       fallback |-> IF brand = "all" THEN dataset[1].recommendations ELSE <<>>,
                       brandInsight |-> brandInsight,
                       brandModels |-> brandModels])
       /\ cards' =
            IF dataset = Null THEN Null
            ELSE Some(createRecommendationCards(cardArgs'[1].scopeLabel, cardArgs'[1].complaints,
                          cardArgs'[1].fallback, cardArgs'[1].brandInsight,
                          cardArgs'[1].brandModels, engine))
       /\ UNCHANGED <<hookVars, engine, advisorVars, buyerVars>>

\* the /supplier-insights response arrives (once per mount)
SupplierReceive ==
    /\ AdvisorIdle /\ BuyerIdle
    /\ supplierData = Null
    /\ \E r \in SupplierResponses :
          SupplierRender(Some(r), supplierActiveKey, supplierSelectedBrand, {SelectKey})

SupplierRunEffects ==
    /\ supplierEffects # {}
    /\ LET key == supplierKeyAfterEffects(supplierEffects, supplierActiveKey,
                                          datasetKeys(supplierData))
           brand == selectedBrandAfterEffects(supplierEffects, supplierSelectedBrand,
                        supplierBrandOptions(activeDataset(supplierData, supplierActiveKey)))
       IN IF key = supplierActiveKey /\ brand = supplierSelectedBrand
          THEN /\ supplierEffects' = {}
               /\ UNCHANGED <<hookVars, engine, advisorVars, buyerVars, cardArgs, cards,
                              supplierData, supplierActiveKey, supplierSelectedBrand>>
          ELSE SupplierRender(supplierData, key, brand,
                              EffectsAfter(supplierActiveKey, supplierSelectedBrand, key, brand))

\* a data set is picked in the channel select
SupplierSetActiveKey ==
    /\ cardArgs # Null
    /\ supplierEffects = {}
    /\ \E k \in Range(datasetKeys(supplierData)) :
          /\ Some(k) # supplierActiveKey
          /\ SupplierRender(supplierData, Some(k), supplierSelectedBrand, AfterKeyChange)

\* a company is picked in the brand select
SupplierSetSelectedBrand ==
    /\ cardArgs # Null
    /\ supplierEffects = {}
    /\ \E b \in {"all"} \cup supplierBrandOptions(activeDataset(supplierData, supplierActiveKey)) :
          /\ b # supplierSelectedBrand
          /\ SupplierRender(supplierData, supplierActiveKey, b, {ResetOnOptions})

SupplierPageNext ==
    \/ SupplierReceive
    \/ SupplierRunEffects
    \/ SupplierSetActiveKey
    \/ SupplierSetSelectedBrand

\* the router shows one page at a time
AdvisorPageNext == SupplierIdle /\ BuyerIdle /\ AdvisorNext

\* the application: every page starts unmounted, with nothing fetched
PagesInit ==
    /\ engine \in Engines
    /\ AdvisorIdle
    /\ SupplierIdle
    /\ BuyerIdle
    /\ HooksIdle

PagesNext ==
    \/ BuyerPageNext
    \/ SupplierPageNext
    \/ AdvisorPageNext

SpecPages == PagesInit /\ [][PagesNext]_vars

\* ------------------------------------------------------------------------
\* The pages: properties
\* ------------------------------------------------------------------------

\* the effects of the mounted page have run
Settled == buyerEffects = {} /\ supplierEffects = {}

\* the brand filter of a page names a brand its current data set lacks
BuyerScopeAbsent ==
    /\ buyerSelectedBrand # "all"
    /\ buyerSelectedBrand \notin buyerBrandOptions(activeDataset(buyerData, buyerActiveKey))

SupplierScopeAbsent ==
    /\ supplierSelectedBrand # "all"
    /\ supplierSelectedBrand
          \notin supplierBrandOptions(activeDataset(supplierData, supplierActiveKey))

\* every filter is 'all' or a brand the current snapshot offers, and the
\* cards on the page are those of the filter
ScopeOffered ==
    /\ selectedBrand \in {"all"} \cup brandOptions(data)
    /\ budgetBrand \in {"all"} \cup brandOptions(data)
    /\ ~BuyerScopeAbsent
    /\ ~SupplierScopeAbsent
    /\ buyerArgs # Null /\ buyerData # Null =>
          /\ buyerArgs[1].selectedBrand = buyerSelectedBrand
          /\ buyerSelectedBrand = "all" =>
                recommendations[1] = generateBuyerRecommendations(
                    activeDataset(buyerData, buyerActiveKey)[1], "all", Null, engine)
    /\ cardArgs # Null /\ supplierData # Null =>
          /\ cardArgs[1].scopeLabel =
                (IF supplierSelectedBrand = "all" THEN "All companies" ELSE supplierSelectedBrand)
          /\ supplierSelectedBrand = "all" =>
                LET dataset == activeDataset(supplierData, supplierActiveKey)[1]
                IN cards[1] = createRecommendationCards("All companies",
                                  Slice(dataset.complaint_volume, 0, 6),
                                  dataset.recommendations, Null, Null, engine)

\* the step that follows a render with a filter that names an absent brand
\* resets that filter and renders the aggregate view
AbsentScopeReset ==
    /\ BuyerScopeAbsent =>
          /\ buyerSelectedBrand' = "all"
          /\ buyerArgs' # Null => buyerArgs'[1].selectedBrand = "all"
                                  /\ buyerArgs'[1].brandSegment = Null
    /\ SupplierScopeAbsent =>
          /\ supplierSelectedBrand' = "all"
          /\ cardArgs' # Null => cardArgs'[1].scopeLabel = "All companies"
                                 /\ cardArgs'[1].brandInsight = Null

\* C15: a brand scope that names a brand absent from the current snapshot is
\* treated as no scope.  Once the effects of the page have run, each brand
\* filter (browse, budget, buyer, supplier) is 'all' or a brand the current
\* snapshot offers and the cards are those of the aggregate view; the step
\* that follows a render with an absent brand resets the filter to 'all'.
C15_AbsentScopeIsNoScope ==
    /\ [](Settled => ScopeOffered)
    /\ [][AbsentScopeReset]_vars

\* the Buyer page has rendered a data set with a brand filter that the data
\* set lacks (the other data set offers it); its effects are due
C15_Witness ==
    /\ buyerActiveKey = Some("social")
    /\ buyerSelectedBrand = "Aster"
    /\ BuyerScopeAbsent
    /\ recommendations # Null
    /\ buyerEffects = AfterKeyChange

\* ------------------------------------------------------------------------
\* useApiData: the fetch hook of the filters and insights pages
\* ------------------------------------------------------------------------
\* A component calls useApiData(endpoint, params).  Every run of the effect
\* issues one request; apiRequests[i] is the i-th request with the isMounted
\* flag of its effect's closure and, once it has completed, what came back
\* and as which completion (order) it arrived.

MaxApiRequests == 3

\* <<endpoint, serializedParams>> values of the dependency list
ApiKeys == {"k1", "k2"}

\* response.data of a fulfilled request
ApiBodies == {"body-1", "body-2"}

\* what a request is rejected with: an AxiosError whose response payload has
\* an error, only a message, neither, or that has no message at all; an
\* Error that is no AxiosError; a value that is no Error
ApiFailures ==
    { [axios |-> TRUE,  payloadError |-> Some("bad filter"), payloadMessage |-> Some("details"),
       isError |-> TRUE, message |-> Some("Request failed with status code 400")],
      [axios |-> TRUE,  payloadError |-> Null, payloadMessage |-> Some("details"),
       isError |-> TRUE, message |-> Some("Request failed with status code 400")],
      [axios |-> TRUE,  payloadError |-> Null, payloadMessage |-> Null,
       isError |-> TRUE, message |-> Some("Network Error")],
      [axios |-> TRUE,  payloadError |-> Null, payloadMessage |-> Null,
       isError |-> TRUE, message |-> Null],
      [axios |-> FALSE, payloadError |-> Null, payloadMessage |-> Null,
       isError |-> TRUE, message |-> Some("boom")],
      [axios |-> FALSE, payloadError |-> Null, payloadMessage |-> Null,
       isError |-> FALSE, message |-> Null] }

\* the message the catch handler stores
errorMessage(failure) ==
    IF failure.axios
    THEN LET details == Coalesce(failure.payloadError, failure.payloadMessage)
         IN Coalesce(details, Coalesce(failure.message, Some("Unknown error")))[1]
    ELSE IF failure.isError THEN failure.message[1] ELSE "Unknown error"

\* setState((prev) => ({ ...prev, status: "loading", error: null }))
onEffect(state) == [state EXCEPT !.status = "loading", !.error = Null]

\* a then handler without the isMounted test
onFulfilled_Unguarded(state, isMounted, body) ==
    [status |-> "success", data |-> Some(body), error |-> Null]

\* .then((response) => { if (!isMounted) return; setState(...) })
onFulfilled(state, isMounted, body) ==
    IF ~isMounted THEN state
    ELSE [status |-> "success", data |-> Some(body), error |-> Null]

\* a catch handler that keeps the data of the previous response
onRejected_KeepsData(state, isMounted, failure) ==
    IF ~isMounted THEN state
    ELSE [status |-> "error", data |-> state.data, error |-> Some(errorMessage(failure))]

\* .catch((error) => { if (!isMounted) return; setState(...) })
onRejected(state, isMounted, failure) ==
    IF ~isMounted THEN state
    ELSE [status |-> "error", data |-> Null, error |-> Some(errorMessage(failure))]

\* return () => { isMounted = false }: the cleanup of the effect that ran last
cleanup(requests) ==
    [i \in 1..Len(requests) |-> [requests[i] EXCEPT !.isMounted = FALSE]]

\* the completions that have arrived
ApiArrived == Cardinality({i \in 1..Len(apiRequests) : apiRequests[i].outcome # Null})

\* the component has just been mounted: rendered once, its effect is due
ApiInit ==
    /\ engine = "timsort"
    /\ apiMounted = TRUE
    /\ apiKey \in {Some(k) : k \in ApiKeys}
    /\ apiEffectDue = TRUE
    /\ apiState = [status |-> "idle", data |-> Null, error |-> Null]
    /\ apiRequests = <<>>
    /\ AdvisorIdle
    /\ SupplierIdle
    /\ BuyerIdle
    /\ ExplorerIdle

\* the effect on [endpoint, serializedParams] runs: the cleanup of the
\* previous run, the loading state, and the request
ApiRunEffect ==
    /\ apiMounted
    /\ apiEffectDue
    /\ Len(apiRequests) < MaxApiRequests
    /\ apiState' = onEffect(apiState)
    /\ apiRequests' = Append(cleanup(apiRequests),
                             [key |-> apiKey[1], isMounted |-> TRUE, outcome |-> Null])
    /\ apiEffectDue' = FALSE
    /\ UNCHANGED <<apiMounted, apiKey, engine, advisorVars, supplierVars,
                   buyerVars, explorerVars>>

\* the component renders with another endpoint or other params
ApiSetKey ==
    /\ apiMounted
    /\ ~apiEffectDue
    /\ Len(apiRequests) < MaxApiRequests
    /\ \E k \in ApiKeys :
          /\ Some(k) # apiKey
          /\ apiKey' = Some(k)
    /\ apiEffectDue' = TRUE
    /\ UNCHANGED <<apiMounted, apiState, apiRequests, engine, advisorVars, supplierVars,
                   buyerVars, explorerVars>>

\* the component unmounts: the cleanup of the effect that ran last
ApiUnmount ==
    /\ apiMounted
    /\ apiMounted' = FALSE
    /\ apiEffectDue' = FALSE
    /\ apiRequests' = cleanup(apiRequests)
    /\ UNCHANGED <<apiKey, apiState, engine, advisorVars, supplierVars,
                   buyerVars, explorerVars>>

\* the response of request i arrives
ApiFulfil ==
    \E i \in 1..Len(apiRequests) : \E body \in ApiBodies :
        /\ apiRequests[i].outcome = Null
        /\ apiState' = onFulfilled(apiState, apiRequests[i].isMounted, body)
        /\ apiRequests' = [apiRequests EXCEPT ![i].outcome =
              Some([order |-> ApiArrived + 1,
                    state |-> [status |-> "success", data |-> Some(body), error |-> Null]])]
        /\ UNCHANGED <<apiMounted, apiKey, apiEffectDue, engine, advisorVars, supplierVars,
                   buyerVars, explorerVars>>

\* request i fails
ApiReject ==
    \E i \in 1..Len(apiRequests) : \E failure \in ApiFailures :
        /\ apiRequests[i].outcome = Null
        /\ apiState' = onRejected(apiState, apiRequests[i].isMounted, failure)
        /\ apiRequests' = [apiRequests EXCEPT ![i].outcome =
              Some([order |-> ApiArrived + 1,
                    state |-> [status |-> "error", data |-> Null,
                               error |-> Some(errorMessage(failure))]])]
        /\ UNCHANGED <<apiMounted, apiKey, apiEffectDue, engine, advisorVars, supplierVars,
                   buyerVars, explorerVars>>

ApiNext ==
    \/ ApiRunEffect
    \/ ApiSetKey
    \/ ApiUnmount
    \/ ApiFulfil
    \/ ApiReject

SpecApiData == ApiInit /\ [][ApiNext]_vars

\* ------------------------------------------------------------------------
\* useApiData: properties
\* ------------------------------------------------------------------------

\* request i is not the most recently issued one, or the component is gone
ApiStale(i) == i < Len(apiRequests) \/ ~apiMounted

\* a step in which a stale request completes leaves the state alone
StaleCompletionIgnored ==
    \A i \in 1..Len(apiRequests) :
        (/\ ApiStale(i)
         /\ apiRequests[i].outcome = Null
         /\ Len(apiRequests') = Len(apiRequests)
         /\ apiRequests'[i].outcome # Null)
        => apiState' = apiState

\* once the effect of the last render has run, the state is the loading
\* state while its request is out and the outcome of that request afterwards
ReflectsLatestRequest ==
    (apiMounted /\ ~apiEffectDue) =>
        /\ apiRequests # <<>>
        /\ LET latest == apiRequests[Len(apiRequests)]
           IN IF latest.outcome = Null
              THEN apiState.status = "loading" /\ apiState.error = Null
              ELSE apiState = latest.outcome[1].state

\* C27: useApiData ignores stale responses: a response or failure of a
\* request that is not the most recently issued one, or that arrives after
\* the unmount, never changes the state, and once the latest request has
\* completed the state is its outcome, whatever arrived before or after.
C27_StaleResponsesIgnored ==
    []ReflectsLatestRequest /\ [][StaleCompletionIgnored]_vars

\* the second request was answered first and the first failed afterwards:
\* the state is the answer of the second
C27_Witness ==
    /\ apiMounted
    /\ ~apiEffectDue
    /\ Len(apiRequests) = 2
    /\ apiRequests[1].outcome # Null
    /\ apiRequests[2].outcome # Null
    /\ apiRequests[2].outcome[1].order = 1
    /\ apiRequests[1].outcome[1].order = 2
    /\ apiRequests[1].outcome[1].state.status = "error"
    /\ apiState = [status |-> "success", data |-> Some("body-1"), error |-> Null]

\* the state of every status
ApiStateShape ==
    /\ apiState.status \in {"idle", "loading", "success", "error"}
    /\ apiState.status = "success" =>
          /\ apiState.error = Null
          /\ \E i \in 1..Len(apiRequests) :
                /\ apiRequests[i].outcome # Null
                /\ apiRequests[i].outcome[1].state.status = "success"
                /\ apiState.data = apiRequests[i].outcome[1].state.data
    /\ apiState.status = "error" =>
          /\ apiState.data = Null
          /\ apiState.error # Null
    /\ apiState.status = "idle" => apiRequests = <<>>

\* the statuses that follow 'loading'
AfterLoading ==
    apiState.status = "loading" => apiState'.status \in {"success", "error", "loading"}

\* C28: in every reachable state of useApiData, 'success' comes with the
\* payload as data and no error, 'error' with no data and a message, 'idle'
\* only before the first request is issued; and from 'loading' the next
\* status is 'success', 'error' or 'loading' again.
C28_StatusShapes ==
    []ApiStateShape /\ [][AfterLoading]_vars

\* the first request was answered, the second one failed: the error state
\* holds no data
C28_Witness ==
    /\ Len(apiRequests) = 2
    /\ apiRequests[1].outcome # Null
    /\ apiRequests[1].outcome[1].order = 1
    /\ apiRequests[1].outcome[1].state.status = "success"
    /\ apiRequests[1].isMounted = FALSE
    /\ apiRequests[2].outcome # Null
    /\ apiState.status = "error"
    /\ apiState.data = Null
    /\ apiState.error = Some("Unknown error")

\* ------------------------------------------------------------------------
\* Review Explorer: updateParams
\* ------------------------------------------------------------------------
\* ReviewQueryParams is the record of its filter keys (Null: undefined), the
\* page and the page size.  The optional start_date, end_date, min_rating and
\* max_rating are set nowhere and are left out.

MaxPages == 3

PAGE_SIZE == 20

\* the keys handleSelectChange accepts
SelectKeys == {"dataset", "brand", "model", "sentiment", "feature", "source", "country"}

FilterKeys == SelectKeys \cup {"search"}

\* the keys a dataset change resets
DatasetScopedKeys == {"brand", "model", "feature", "source", "country"}

\* DEFAULT_PARAMS, page 1 with 20 reviews per page
DEFAULT_PARAMS ==
    [k \in FilterKeys \cup {"page", "page_size"} |->
        CASE k = "page" -> 1
          [] k = "page_size" -> PAGE_SIZE
          [] OTHER -> Null]

\* the option values of a select and the texts of the search field
OptionValues == {"x", "y"}

\* params values: every filter unset or set to the first option
ParamsInputs ==
    { [k \in FilterKeys \cup {"page", "page_size"} |->
          CASE k = "page" -> pg
            [] k = "page_size" -> PAGE_SIZE
            [] OTHER -> IF k \in set THEN Some("x") ELSE Null] :
        set \in SUBSET FilterKeys, pg \in 1..MaxPages }

\* an update that puts the page of the update over the page of prev
updateParams_KeepsPage(prev, next) ==
    [k \in DOMAIN prev |->
        IF k = "page"
        THEN IF "page" \in DOMAIN next /\ next["page"] # Null
             THEN next["page"][1] ELSE prev["page"]
        ELSE IF k \in DOMAIN next THEN next[k] ELSE prev[k]]

\* setParams((prev) => ({ ...prev, ...next, page: next.page ?? 1 })); the
\* page of next is Null or <<page>>
updateParams(prev, next) ==
    [k \in DOMAIN prev |->
        IF k = "page"
        THEN IF "page" \in DOMAIN next /\ next["page"] # Null THEN next["page"][1] ELSE 1
        ELSE IF k \in DOMAIN next THEN next[k] ELSE prev[k]]

\* nextParams of handleSelectChange(key) for the selected value
selectParams(key, value) ==
    IF key = "dataset"
    THEN [k \in {"dataset"} \cup DatasetScopedKeys |-> IF k = "dataset" THEN value ELSE Null]
    ELSE [k \in {key} |-> value]

\* the argument of updateParams in handleSearchSubmit
searchParams(term) == [k \in {"search"} |-> IF term = "" THEN Null ELSE Some(term)]

\* the argument of updateParams in handleClearFilters
clearParams == [k \in FilterKeys |-> Null]

\* the argument of updateParams in handlePageChange
pageParams(page) == [k \in {"page"} |-> Some(page)]

\* the argument of updateParams in the effects on the URL's dataset and search
urlParams(key, value) == [k \in {key} |-> value]

\* the argument of updateParams a call passes
nextParams(call) ==
    CASE call.kind = "select" -> selectParams(call.key, call.value)
      [] call.kind = "search" -> searchParams(call.term)
      [] call.kind = "clear" -> clearParams
      [] call.kind = "url" -> urlParams(call.key, call.value)
      [] call.kind = "page" -> pageParams(call.page)

\* The updateParams calls of the page on params: a select changed to a value
\* or to its placeholder, the search form submitted, the filters cleared,
\* the URL's dataset or search differing from params, and a page change.
Calls(params) ==
    { [kind |-> "select", key |-> k, value |-> v] :
        k \in SelectKeys, v \in {Null} \cup {Some(o) : o \in OptionValues} }
    \cup { [kind |-> "search", term |-> t] : t \in {""} \cup OptionValues }
    \cup { [kind |-> "clear"] }
    \cup { [kind |-> "url", key |-> "dataset", value |-> Some(o)] :
            o \in {v \in OptionValues : Some(v) # params["dataset"]} }
    \cup { [kind |-> "url", key |-> "search", value |-> v] :
            v \in {w \in {Null} \cup {Some(o) : o \in OptionValues} : w # params["search"]} }
    \cup { [kind |-> "page", page |-> pg] :
            pg \in {q \in 1..MaxPages : q = params["page"] - 1 \/ q = params["page"] + 1} }

\* a handler of the page is about to call updateParams
UpdateInit ==
    /\ engine = "timsort"
    /\ explorerCall \in {Some([params |-> prm, call |-> cl]) :
                            prm \in ParamsInputs, cl \in UNION {Calls(q) : q \in ParamsInputs}}
    /\ explorerCall[1].call \in Calls(explorerCall[1].params)
    /\ explorerResult = Null
    /\ ExplorerPageIdle
    /\ ApiIdle
    /\ AdvisorIdle
    /\ SupplierIdle
    /\ BuyerIdle

\* the state update is applied
UpdateParams ==
    /\ explorerCall # Null
    /\ explorerResult = Null
    /\ explorerResult' = Some(updateParams(explorerCall[1].params,
                                           nextParams(explorerCall[1].call)))
    /\ UNCHANGED <<explorerCall, explorerPageVars, apiVars, engine, advisorVars, supplierVars,
                   buyerVars>>

UpdateNext == UpdateParams

SpecUpdateParams == UpdateInit /\ [][UpdateNext]_vars

\* ------------------------------------------------------------------------
\* Review Explorer: properties of updateParams
\* ------------------------------------------------------------------------

\* the parameters an update names
NamedKeys(call) ==
    CASE call.kind = "select" ->
            IF call.key = "dataset" THEN {"dataset"} \cup DatasetScopedKeys ELSE {call.key}
      [] call.kind = "search" -> {"search"}
      [] call.kind = "clear" -> FilterKeys
      [] call.kind = "url" -> {call.key}
      [] call.kind = "page" -> {"page"}

\* C29: every parameter update that does not itself name a page (filter
\* select, dataset change, search submit, clear filters, URL sync) sets the
\* requested page to 1 and leaves every parameter it does not name
\* unchanged; a dataset change additionally clears brand, model, feature,
\* source and country.
C29_UpdateResetsPageOnly ==
    (explorerResult # Null /\ explorerCall[1].call.kind # "page") =>
        LET call == explorerCall[1].call
            before == explorerCall[1].params
            after == explorerResult[1]
        IN /\ after["page"] = 1
           /\ \A k \in (FilterKeys \cup {"page_size"}) \ NamedKeys(call) :
                 after[k] = before[k]
           /\ (call.kind = "select" /\ call.key = "dataset") =>
                 /\ after["dataset"] = call.value
                 /\ \A k \in DatasetScopedKeys : after[k] = Null
           /\ (call.kind = "select" /\ call.key # "dataset") => after[call.key] = call.value

\* on page 3 with every filter set, the dataset select changes to "y": page
\* 1, the dataset "y", the five scoped filters cleared, sentiment and search
\* kept
C29_Witness ==
    /\ explorerResult # Null
    /\ explorerCall[1].call = [kind |-> "select", key |-> "dataset", value |-> Some("y")]
    /\ explorerCall[1].params["page"] = 3
    /\ \A k \in FilterKeys : explorerCall[1].params[k] = Some("x")
    /\ explorerResult[1]["page"] = 1
    /\ explorerResult[1]["dataset"] = Some("y")
    /\ explorerResult[1]["brand"] = Null
    /\ explorerResult[1]["sentiment"] = Some("x")
    /\ explorerResult[1]["search"] = Some("x")

\* ------------------------------------------------------------------------
\* Review Explorer: the page and its fetch effect
\* ------------------------------------------------------------------------
\* The page renders the selects of WiredKeys; params is changed by the
\* handlers and by the two effects on the URL.  A request in flight is the
\* page it asks for with the isMounted flag of its effect's closure; the
\* backend answers the page it was asked for with the number of pages of the
\* result set.  The effects of a render run before the next event of the
\* user is handled (React flushes pending effects before a discrete event).

\* the selects the page renders
WiredKeys == {"sentiment", "brand", "source", "country"}

\* the texts typed into the search field
SearchTexts == {"", "x"}

\* the search params of the location the page reads or writes
ExplorerUrls ==
    [dataset : {Null, Some("x")}, search : {Null, Some("x")}, sentiment : {Null, Some("x")}]

\* new URLSearchParams()
EmptyUrl == [dataset |-> Null, search |-> Null, sentiment |-> Null]

FetchEffect == "fetch"

UrlEffects == "url"

\* the effects due after a render: the fetch effect when serializedParams
\* changed, the URL effects when params or the URL changed
effectsAfter(params, newParams, url, newUrl) ==
    (IF newParams # params THEN {FetchEffect} ELSE {})
    \cup (IF newParams # params \/ newUrl # url THEN {UrlEffects} ELSE {})

\* pagination buttons also while a request is out
PaginationShown_WithData(status, resultData) == resultData # Null

\* {status === "success" && data && (...)}: the pagination buttons are there
PaginationShown(status, resultData) == status = "success" /\ resultData # Null

\* the button of the direction is not disabled
buttonEnabled(direction, params, resultData) ==
    IF direction = "prev" THEN ~(params["page"] <= 1)
    ELSE ~(resultData[1].page >= resultData[1].total_pages)

\* handlePageChange(direction): the params after it
handlePageChange(direction, params, resultData) ==
    IF resultData = Null THEN params
    ELSE IF direction = "prev" /\ params["page"] > 1
         THEN updateParams(params, pageParams(params["page"] - 1))
    ELSE IF direction = "next" /\ resultData[1].page < resultData[1].total_pages
         THEN updateParams(params, pageParams(params["page"] + 1))
    ELSE params

\* the two effects on the URL, both on the params of the render
syncFromUrl(params, url) ==
    LET withDataset ==
            IF url.dataset # Null /\ url.dataset # params["dataset"]
            THEN updateParams(params, urlParams("dataset", url.dataset))
            ELSE params
    IN IF url.search # params["search"]
       THEN updateParams(withDataset, urlParams("search", url.search))
       ELSE withDataset

\* the cleanup of the fetch effect that ran last
explorerCleanup(requests) == {[r EXCEPT !.isMounted = FALSE] : r \in requests}

\* the page has just been mounted at some URL and rendered once
ExplorerInit ==
    /\ engine = "timsort"
    /\ explorerCall = Null
    /\ explorerResult = Null
    /\ explorerMounted = TRUE
    /\ explorerParams = Some(DEFAULT_PARAMS)
    /\ explorerStatus = "idle"
    /\ explorerData = Null
    /\ explorerError = Null
    /\ explorerRequests = {}
    /\ explorerEffectsDue = {FetchEffect, UrlEffects}
    /\ explorerUrl \in {Some(u) : u \in ExplorerUrls}
    /\ searchTerm = OrElse(explorerUrl[1].search, "")
    /\ ApiIdle
    /\ AdvisorIdle
    /\ SupplierIdle
    /\ BuyerIdle

\* a render: the state it shows and the effects due after it
ExplorerRender(params, url, text) ==
    /\ explorerParams' = Some(params)
    /\ explorerUrl' = Some(url)
    /\ searchTerm' = text
    /\ explorerEffectsDue' = effectsAfter(explorerParams[1], params, explorerUrl[1], url)
    /\ UNCHANGED <<explorerMounted, explorerStatus, explorerData, explorerError,
                   explorerRequests, explorerCall, explorerResult, apiVars, engine,
                   advisorVars, supplierVars, buyerVars>>

\* the effects of the last render run: the fetch effect, then the effects on
\* the URL's dataset and search
ExplorerRunEffects ==
    /\ explorerMounted
    /\ explorerEffectsDue # {}
    /\ IF FetchEffect \in explorerEffectsDue
       THEN /\ explorerStatus' = "loading"
            /\ explorerError' = Null
            /\ explorerRequests' = explorerCleanup(explorerRequests)
                    \cup {[page |-> explorerParams[1]["page"], isMounted |-> TRUE]}
       ELSE UNCHANGED <<explorerStatus, explorerError, explorerRequests>>
    /\ explorerParams' = Some(syncFromUrl(explorerParams[1], explorerUrl[1]))
    /\ explorerEffectsDue' =
          effectsAfter(explorerParams[1], explorerParams'[1], explorerUrl[1], explorerUrl[1])
    /\ UNCHANGED <<explorerMounted, explorerData, explorerUrl, searchTerm, explorerCall,
                   explorerResult, apiVars, engine, advisorVars, supplierVars, buyerVars>>

\* handleSelectChange(key) on a change of the select
ExplorerSelect ==
    \E key \in WiredKeys : \E value \in {Null, Some("x")} :
        /\ explorerMounted
        /\ explorerEffectsDue = {}
        /\ value # explorerParams[1][key]
        /\ ExplorerRender(updateParams(explorerParams[1], selectParams(key, value)),
                          IF key \in {"dataset", "sentiment"}
                          THEN [explorerUrl[1] EXCEPT ![key] = value] ELSE explorerUrl[1],
                          searchTerm)

\* onChange of the search field
ExplorerTypeSearch ==
    \E text \in SearchTexts :
        /\ explorerMounted
        /\ explorerEffectsDue = {}
        /\ text # searchTerm
        /\ ExplorerRender(explorerParams[1], explorerUrl[1], text)

\* handleSearchSubmit
ExplorerSubmitSearch ==
    /\ explorerMounted
    /\ explorerEffectsDue = {}
    /\ ExplorerRender(updateParams(explorerParams[1], searchParams(searchTerm)),
                      [explorerUrl[1] EXCEPT !.search =
                          IF searchTerm = "" THEN Null ELSE Some(searchTerm)],
                      searchTerm)

\* handleClearFilters
ExplorerClearFilters ==
    /\ explorerMounted
    /\ explorerEffectsDue = {}
    /\ ExplorerRender(updateParams(explorerParams[1], clearParams), EmptyUrl, "")

\* a click on Previous or Next
ExplorerPageChange ==
    \E direction \in {"prev", "next"} :
        /\ explorerMounted
        /\ explorerEffectsDue = {}
        /\ PaginationShown(explorerStatus, explorerData)
        /\ buttonEnabled(direction, explorerParams[1], explorerData)
        /\ ExplorerRender(handlePageChange(direction, explorerParams[1], explorerData),
                          explorerUrl[1], searchTerm)

\* the response of a request arrives
ExplorerFulfil ==
    \E r \in explorerRequests : \E pages \in 0..MaxPages :
        /\ explorerRequests' = explorerRequests \ {r}
        /\ IF r.isMounted
           THEN /\ explorerData' = Some([page |-> r.page, total_pages |-> pages])
                /\ explorerStatus' = "success"
           ELSE UNCHANGED <<explorerData, explorerStatus>>
        /\ UNCHANGED <<explorerMounted, explorerParams, explorerError, explorerEffectsDue,
                       explorerUrl, searchTerm, explorerCall, explorerResult, apiVars, engine,
                       advisorVars, supplierVars, buyerVars>>

\* a request fails
ExplorerReject ==
    \E r \in explorerRequests : \E failure \in ApiFailures :
        /\ explorerRequests' = explorerRequests \ {r}
        /\ IF r.isMounted
           THEN /\ explorerError' = Some(errorMessage(failure))
                /\ explorerStatus' = "error"
           ELSE UNCHANGED <<explorerError, explorerStatus>>
        /\ UNCHANGED <<explorerMounted, explorerParams, explorerData, explorerEffectsDue,
                       explorerUrl, searchTerm, explorerCall, explorerResult, apiVars, engine,
                       advisorVars, supplierVars, buyerVars>>

\* the page unmounts: the cleanup of the fetch effect
ExplorerUnmount ==
    /\ explorerMounted
    /\ explorerMounted' = FALSE
    /\ explorerEffectsDue' = {}
    /\ explorerRequests' = explorerCleanup(explorerRequests)
    /\ UNCHANGED <<explorerParams, explorerStatus, explorerData, explorerError, explorerUrl,
                   searchTerm, explorerCall, explorerResult, apiVars, engine, advisorVars,
                   supplierVars, buyerVars>>

ExplorerNext ==
    \/ ExplorerRunEffects
    \/ ExplorerSelect
    \/ ExplorerTypeSearch
    \/ ExplorerSubmitSearch
    \/ ExplorerClearFilters
    \/ ExplorerPageChange
    \/ ExplorerFulfil
    \/ ExplorerReject
    \/ ExplorerUnmount

SpecExplorer == ExplorerInit /\ [][ExplorerNext]_vars

\* ------------------------------------------------------------------------
\* Review Explorer: properties of the page
\* ------------------------------------------------------------------------

\* the requested page is a page
PageAtLeastOne == explorerParams # Null => explorerParams[1]["page"] >= 1

\* a step that raises the requested page stays within the pages of the
\* result it was taken on
NextWithinTotal ==
    (explorerParams # Null /\ explorerParams'[1]["page"] > explorerParams[1]["page"]) =>
        /\ explorerData # Null
        /\ explorerParams'[1]["page"] <= explorerData[1].total_pages

====
